---- MODULE Spec2Model ----
(***************************************************************************)
(* A model of the ibuilder crate: the interactive Builder<T> of            *)
(* src/ibuilder/src/lib.rs, the BuildableValue implementations of          *)
(* src/ibuilder/src/builders.rs, and the BuildableValue implementations    *)
(* that src/ibuilder_derive generates for structs and enums.               *)
(*                                                                         *)
(* A Rust String is a sequence of one-character strings, so that parsing   *)
(* (from_str) and formatting (to_string) are computed and not assumed.     *)
(* Option<X> is the empty sequence (None) or a one-element sequence.       *)
(***************************************************************************)
EXTENDS Integers, Sequences, FiniteSets, TLC

VARIABLES
    root,            \* Builder::builder, the tree of BuildableValue nodes
    current_fields,  \* Builder::current_fields, the path of the focused node
    result,          \* what the last call of Builder::choose returned
    supplied,        \* the value last given for each leaf of a record, by its path
    observed         \* what the last read-only call returned, since the last choose

vars == <<root, current_fields, result, supplied, observed>>

RECURSIVE ParseDigits(_, _, _, _, _)
RECURSIVE NatToString(_)
RECURSIVE Join(_)
RECURSIVE new_struct_fields(_, _)
RECURSIVE builder_new(_)
RECURSIVE struct_new(_)
RECURSIVE new_buildable_value(_)
RECURSIVE get_value_any(_)
RECURSIVE values_of(_, _)
RECURSIVE apply(_, _, _)
RECURSIVE get_options(_, _)
RECURSIVE get_subfields(_, _)
RECURSIVE CountItems(_)
RECURSIVE SumItems(_, _)
RECURSIVE Focus(_, _)
RECURSIVE Backs(_, _, _)
RECURSIVE Unwrap(_)
RECURSIVE NoDefault(_)
RECURSIVE Required(_)
RECURSIVE to_node(_)
RECURSIVE Missing(_)
RECURSIVE NormalPath(_, _)
RECURSIVE ValueAt(_, _, _)
RECURSIVE DefaultedLeaves(_, _)

(***************************************************************************)
(* Bounds of the model.                                                    *)
(***************************************************************************)
\* The largest number of sequence elements the whole tree may hold.
MaxItems == 2

(***************************************************************************)
(* Strings.                                                                *)
(***************************************************************************)
FINALIZE_ID == <<"_", "_", "f", "i", "n", "a", "l", "i", "z", "e">>
BACK_ID == <<"_", "_", "b", "a", "c", "k">>
s_new == <<"_", "_", "n", "e", "w">>
s_remove == <<"_", "_", "r", "e", "m", "o", "v", "e">>
s_edit == <<"_", "_", "e", "d", "i", "t">>
s_set == <<"_", "_", "s", "e", "t">>
s_true == <<"t", "r", "u", "e">>
s_false == <<"f", "a", "l", "s", "e">>

DigitChars == <<"0", "1", "2", "3", "4", "5", "6", "7", "8", "9">>

IsDigit(c) == \E i \in 1..10 : DigitChars[i] = c

DigitValue(c) == (CHOOSE i \in 1..10 : DigitChars[i] = c) - 1

\* A String as a display string.
Join(s) == IF s = <<>> THEN "" ELSE Head(s) \o Join(Tail(s))

\* The decimal digits of a natural number.
NatToString(n) ==
    IF n < 10 THEN <<DigitChars[n + 1]>>
    ELSE NatToString(n \div 10) \o <<DigitChars[(n % 10) + 1]>>

\* ToString for the integer types.
IntToString(n) == IF n < 0 THEN <<"-">> \o NatToString(-n) ELSE NatToString(n)

(***************************************************************************)
(* The integer types and their FromStr.  TLC's integers have 32 bits, so   *)
(* the integer types modelled as leaves are those of at most 32 bits, and  *)
(* a usize is parsed up to 2^31 - 1 (a larger index is rejected like any   *)
(* index beyond the length of a sequence, as an overflow instead of as an  *)
(* index out of range).                                                    *)
(***************************************************************************)
IntTypes == {"i8", "i16", "i32", "u8", "u16", "usize"}

IsSigned(t) == t \in {"i8", "i16", "i32"}

IntMax(t) ==
    CASE t = "i8" -> 127
      [] t = "i16" -> 32767
      [] t = "u8" -> 255
      [] t = "u16" -> 65535
      [] OTHER -> 2147483647

IntMin(t) ==
    CASE t = "i8" -> -128
      [] t = "i16" -> -32768
      [] t = "i32" -> -2147483647 - 1
      [] OTHER -> 0

ParseOk(v) == [ok |-> TRUE, v |-> v, error |-> ""]

ParseErr(msg) == [ok |-> FALSE, v |-> 0, error |-> msg]

\* The digit loop of from_str: one character at a time, the digit test before the
\* overflow test (checked_mul, then checked_add or checked_sub).
ParseDigits(t, positive, s, i, acc) ==
    IF i > Len(s) THEN ParseOk(acc)
    ELSE IF ~IsDigit(s[i]) THEN ParseErr("invalid digit found in string")
    ELSE LET d == DigitValue(s[i])
         IN  IF positive
             THEN IF acc > (IntMax(t) - d) \div 10
                  THEN ParseErr("number too large to fit in target type")
                  ELSE ParseDigits(t, positive, s, i + 1, acc * 10 + d)
             ELSE IF acc < (IntMin(t) + d + 9) \div 10
                  THEN ParseErr("number too small to fit in target type")
                  ELSE ParseDigits(t, positive, s, i + 1, acc * 10 - d)

\* <integer type>::from_str.
IntFromStr(t, s) ==
    IF s = <<>> THEN ParseErr("cannot parse integer from empty string")
    ELSE IF Len(s) = 1 /\ s[1] \in {"+", "-"} THEN ParseErr("invalid digit found in string")
    ELSE IF s[1] = "+" THEN ParseDigits(t, TRUE, s, 2, 0)
    ELSE IF s[1] = "-" /\ IsSigned(t) THEN ParseDigits(t, FALSE, s, 2, 0)
    ELSE ParseDigits(t, TRUE, s, 1, 0)

\* char::from_str.
CharFromStr(s) ==
    IF s = <<>> THEN ParseErr("cannot parse char from empty string")
    ELSE IF Len(s) > 1 THEN ParseErr("too many characters in string")
    ELSE ParseOk(s[1])

\* <$base>::from_str of the text leaves; String::from_str never fails.
FromStr(t, s) ==
    IF t \in IntTypes THEN IntFromStr(t, s)
    ELSE IF t = "char" THEN CharFromStr(s)
    ELSE ParseOk(s)

\* value.to_string() of the text leaves.
ValueToString(t, v) ==
    IF t \in IntTypes THEN IntToString(v)
    ELSE IF t = "char" THEN <<v>>
    ELSE v

(***************************************************************************)
(* Types.  A type is a record: a text leaf type (the integer types, String,*)
(* char), bool, Vec<T>, Option<T>, Box<T>, or a struct or an enum that     *)
(* derives IBuilder, named and described by StructDef / EnumDef.           *)
(***************************************************************************)
TText(name) == [k |-> "text", name |-> name]

TBool == [k |-> "bool"]

TVec(t) == [k |-> "Vec", of |-> t]

TOption(t) == [k |-> "Option", of |-> t]

TBox(t) == [k |-> "Box", of |-> t]

TStruct(name) == [k |-> "struct", name |-> name]

TEnum(name) == [k |-> "enum", name |-> name]

\* StructField with its FieldMetadata. For a hidden field, default holds the value
\* the builder is initialised with (the default attribute, or Default::default()).
Field(ident, ty, default, hidden) ==
    [ident |-> ident, ty |-> ty, default |-> default, hidden |-> hidden]

\* EnumVariant with its VariantMetadata; builder names the struct generated for the
\* variant's fields (gen_variants_builder_variant_ident).
Variant(ident, kind, builder, hidden, default) ==
    [ident |-> ident, kind |-> kind, builder |-> builder, hidden |-> hidden,
     default |-> default]

s_integer == <<"i", "n", "t", "e", "g", "e", "r">>
s_defaulted == <<"d", "e", "f", "a", "u", "l", "t", "e", "d">>
s_inner == <<"i", "n", "n", "e", "r">>
s_string == <<"s", "t", "r", "i", "n", "g">>
s_lol == <<"l", "o", "l">>
s_field == <<"f", "i", "e", "l", "d">>
s_field2 == <<"f", "i", "e", "l", "d", "2">>
s_enm == <<"e", "n", "m">>
s_Var1 == <<"V", "a", "r", "1">>
s_Var2 == <<"V", "a", "r", "2">>
s_Var3 == <<"V", "a", "r", "3">>
s_bar == <<"b", "a", "r">>
s_baz == <<"b", "a", "z">>
s_f_bool == <<"f", "_", "b", "o", "o", "l">>
s_items == <<"i", "t", "e", "m", "s">>
s_success == <<"s", "u", "c", "c", "e", "s", "s">>
s_foo == <<"f", "o", "o">>
s_Items == <<"I", "t", "e", "m", "s">>

\* The structs a builder is derived for: those of the tests, with a bool and a
\* Vec<i8> as the visible fields of StructWithoutDefault so that every kind of
\* node occurs under a record, and the variant of Holder.
StructDef(name) ==
    CASE name = "Base" ->
            [named |-> TRUE,
             fields |-> << Field(s_integer, TText("i32"), <<>>, FALSE),
                           Field(s_defaulted, TText("i32"), <<42>>, FALSE),
                           Field(s_inner, TStruct("Inner"), <<>>, FALSE) >>]
      [] name = "Inner" ->
            [named |-> TRUE,
             fields |-> << Field(s_string, TText("String"), <<>>, FALSE),
                           Field(s_defaulted, TText("String"), <<s_lol>>, FALSE) >>]
      [] name = "Struct" ->
            [named |-> TRUE,
             fields |-> << Field(s_field, TText("i32"), <<42>>, TRUE),
                           Field(s_enm, TEnum("Enum"), <<>>, FALSE) >>]
      [] name = "StructWithoutDefault" ->
            [named |-> TRUE,
             fields |-> << Field(s_field, TStruct("Defaultable"),
                                 <<[struct |-> "Defaultable", fields |-> <<s_success>>]>>,
                                 TRUE),
                           Field(s_f_bool, TBool, <<>>, FALSE),
                           Field(s_items, TVec(TText("i8")), <<>>, FALSE) >>]
      [] name = "__Enum_Variants_Var2" ->
            [named |-> TRUE,
             fields |-> << Field(s_field, TText("i32"), <<>>, FALSE) >>]
      [] name = "__Enum_Variants_Var3" ->
            [named |-> FALSE,
             fields |-> << Field(<<>>, TText("i32"), <<>>, FALSE) >>]
      [] name = "Foo" ->
            [named |-> TRUE,
             fields |-> << Field(s_bar, TOption(TText("i32")), <<>>, FALSE),
                           Field(s_baz, TOption(TStruct("Bim")), <<>>, FALSE) >>]
      [] name = "Bim" ->
            [named |-> TRUE,
             fields |-> << Field(s_lol, TText("i32"), <<>>, FALSE) >>]
      [] name = "default::Foo" ->
            [named |-> TRUE,
             fields |-> << Field(s_bar, TText("i32"), <<42>>, FALSE) >>]
      [] name = "NestedFoo" ->
            [named |-> TRUE,
             fields |-> << Field(s_foo, TStruct("default::Foo"), <<>>, FALSE) >>]
      [] name = "__Holder_Variants_Items" ->
            [named |-> FALSE,
             fields |-> << Field(<<>>, TVec(TText("i8")), <<>>, FALSE) >>]

\* The enums under test, Holder { Items(Vec<i8>) }, a sequence in a variant, and
\* HiddenDefault { #[ibuilder(hidden, default)] Var1, Var2 }.
EnumDef(name) ==
    CASE name = "Enum" ->
            [variants |-> << Variant(s_Var1, "Empty", "", TRUE, FALSE),
                             Variant(s_Var2, "Named", "__Enum_Variants_Var2", FALSE, FALSE),
                             Variant(s_Var3, "Unnamed", "__Enum_Variants_Var3", FALSE, FALSE) >>]
      [] name = "Defaulted" ->
            [variants |-> << Variant(s_Var1, "Empty", "", FALSE, TRUE),
                             Variant(s_Var2, "Empty", "", FALSE, FALSE) >>]
      [] name = "Holder" ->
            [variants |-> << Variant(s_Items, "Unnamed", "__Holder_Variants_Items",
                                     FALSE, FALSE) >>]
      [] name = "HiddenDefault" ->
            [variants |-> << Variant(s_Var1, "Empty", "", TRUE, TRUE),
                             Variant(s_Var2, "Empty", "", FALSE, FALSE) >>]

\* The types a Builder is made for.
RootTypes ==
    { TStruct("Base"), TStruct("Struct"), TStruct("StructWithoutDefault"),
      TStruct("Foo"), TEnum("Enum"), TEnum("Defaulted"),
      TVec(TOption(TText("i32"))), TBox(TEnum("Enum")),
      TStruct("NestedFoo"), TStruct("default::Foo"), TOption(TText("i32")),
      TOption(TBox(TEnum("Holder"))), TEnum("HiddenDefault"),
      TText("i32"), TText("String") }

(***************************************************************************)
(* Construction of the builders.                                           *)
(***************************************************************************)
\* StructField::builtin_type: the plain types that get their own builder.
builtin_type(ty) == ty.k \in {"text", "bool"}

\* $name::new of type_builder_struct!: a text leaf or the bool leaf.
TypeBuilder_new(ty, default) ==
    IF ty.k = "bool" THEN [k |-> "bool", value |-> default]
    ELSE [k |-> "text", ty |-> ty.name, value |-> default]

\* StructField::builder_new.
builder_new(field) ==
    IF field.hidden THEN [k |-> "hidden", value |-> field.default[1]]
    ELSE IF builtin_type(field.ty) THEN TypeBuilder_new(field.ty, field.default)
    ELSE new_buildable_value(field.ty)

new_struct_fields(fields, i) ==
    IF i > Len(fields) THEN <<>>
    ELSE <<builder_new(fields[i])>> \o new_struct_fields(fields, i + 1)

\* #builder_ident::new of a struct.
struct_new(name) ==
    LET def == StructDef(name)
    IN  IF def.named
        THEN [k |-> "struct", name |-> name, fields |-> new_struct_fields(def.fields, 1)]
        ELSE [k |-> "tuple", name |-> name, value |-> builder_new(def.fields[1])]

\* EnumVariant::builder_new.
variant_builder_new(var) ==
    IF var.kind = "Empty" THEN [variant |-> var.ident, inner |-> <<>>]
    ELSE [variant |-> var.ident, inner |-> <<struct_new(var.builder)>>]

\* An enum builder that starts with no variant selected.
enum_new_without_default(name) == [k |-> "enum", name |-> name, value |-> <<>>]

\* #builder_ident::new of an enum: the default variant, if one is marked.
enum_new(name) ==
    LET vs == EnumDef(name).variants
        defaults == {i \in 1..Len(vs) : vs[i].default}
    IN  [k |-> "enum", name |-> name,
         value |-> IF defaults = {} THEN <<>>
                   ELSE <<variant_builder_new(vs[CHOOSE i \in defaults : TRUE])>>]

\* NewBuildableValue::new_buildable_value with the default configuration.
new_buildable_value(ty) ==
    CASE ty.k = "text" -> TypeBuilder_new(ty, <<>>)
      [] ty.k = "Vec" -> [k |-> "vec", of |-> ty.of, items |-> <<>>]
      [] ty.k = "Box" -> [k |-> "box", value |-> new_buildable_value(ty.of)]
      [] ty.k = "Option" -> [k |-> "opt", of |-> ty.of, value |-> <<>>]
      [] ty.k = "struct" -> struct_new(ty.name)
      [] ty.k = "enum" -> enum_new(ty.name)

(***************************************************************************)
(* get_value_any: the value a node holds, None while a value is missing.   *)
(***************************************************************************)
\* The values of nodes[i..] that are there, the missing ones passed over.
values_of_skip_missing(nodes, i) ==
    IF i > Len(nodes) THEN << <<>> >>
    ELSE LET v == IF nodes[i].k = "hidden" THEN <<nodes[i].value>>
                  ELSE get_value_any(nodes[i])
             rest == values_of(nodes, i + 1)
         IN  IF v = <<>> THEN rest
             ELSE IF rest = <<>> THEN <<>> ELSE << <<v[1]>> \o rest[1] >>

\* The values of nodes[i..] up to the first one that is missing.
values_of_until_missing(nodes, i) ==
    IF i > Len(nodes) THEN << <<>> >>
    ELSE LET v == IF nodes[i].k = "hidden" THEN <<nodes[i].value>>
                  ELSE get_value_any(nodes[i])
         IN  IF v = <<>> THEN << <<>> >>
             ELSE LET rest == values_of(nodes, i + 1)
                  IN  IF rest = <<>> THEN <<>> ELSE << <<v[1]>> \o rest[1] >>

\* The values of nodes[i..], None as soon as one is missing.
values_of(nodes, i) ==
    IF i > Len(nodes) THEN << <<>> >>
    ELSE LET v == IF nodes[i].k = "hidden" THEN <<nodes[i].value>>
                  ELSE get_value_any(nodes[i])
         IN  IF v = <<>> THEN <<>>
             ELSE LET rest == values_of(nodes, i + 1)
                  IN  IF rest = <<>> THEN <<>> ELSE << <<v[1]>> \o rest[1] >>

\* A get_value_any for which an unset optional has no value yet.
get_value_any_unset_is_missing(node) ==
    CASE node.k \in {"text", "bool"} -> node.value
      [] node.k = "vec" -> values_of(node.items, 1)
      [] node.k = "box" ->
            LET v == get_value_any(node.value)
            IN  IF v = <<>> THEN <<>> ELSE <<[box |-> v[1]]>>
      [] node.k = "opt" ->
            IF node.value = <<>> THEN <<>>
            ELSE LET v == get_value_any(node.value[1])
                 IN  IF v = <<>> THEN <<>> ELSE << <<v[1]>> >>
      [] node.k = "struct" ->
            LET vs == values_of(node.fields, 1)
            IN  IF vs = <<>> THEN <<>>
                ELSE <<[struct |-> node.name, fields |-> vs[1]]>>
      [] node.k = "tuple" ->
            LET v == get_value_any(node.value)
            IN  IF v = <<>> THEN <<>>
                ELSE <<[struct |-> node.name, fields |-> <<v[1]>>]>>
      [] node.k = "enum" ->
            IF node.value = <<>> THEN <<>>
            ELSE IF node.value[1].inner = <<>>
            THEN <<[enum |-> node.name, variant |-> node.value[1].variant,
                    fields |-> <<>>]>>
            ELSE LET v == get_value_any(node.value[1].inner[1])
                 IN  IF v = <<>> THEN <<>>
                     ELSE <<[enum |-> node.name, variant |-> node.value[1].variant,
                             fields |-> v[1].fields]>>

\* BuildableValue::get_value_any.
get_value_any(node) ==
    CASE node.k \in {"text", "bool"} -> node.value
      [] node.k = "vec" -> values_of(node.items, 1)
      [] node.k = "box" ->
            LET v == get_value_any(node.value)
            IN  IF v = <<>> THEN <<>> ELSE <<[box |-> v[1]]>>
      [] node.k = "opt" ->
            IF node.value = <<>> THEN << <<>> >>
            ELSE LET v == get_value_any(node.value[1])
                 IN  IF v = <<>> THEN <<>> ELSE << <<v[1]>> >>
      [] node.k = "struct" ->
            LET vs == values_of(node.fields, 1)
            IN  IF vs = <<>> THEN <<>>
                ELSE <<[struct |-> node.name, fields |-> vs[1]]>>
      [] node.k = "tuple" ->
            LET v == get_value_any(node.value)
            IN  IF v = <<>> THEN <<>>
                ELSE <<[struct |-> node.name, fields |-> <<v[1]>>]>>
      [] node.k = "enum" ->
            IF node.value = <<>> THEN <<>>
            ELSE IF node.value[1].inner = <<>>
            THEN <<[enum |-> node.name, variant |-> node.value[1].variant,
                    fields |-> <<>>]>>
            ELSE LET v == get_value_any(node.value[1].inner[1])
                 IN  IF v = <<>> THEN <<>>
                     ELSE <<[enum |-> node.name, variant |-> node.value[1].variant,
                             fields |-> v[1].fields]>>

(***************************************************************************)
(* Input, ChooseError, Options, Choice.                                    *)
(***************************************************************************)
Choice_(data) == [kind |-> "Choice", data |-> data]

Text_(data) == [kind |-> "Text", data |-> data]

InvalidText(error) == [kind |-> "InvalidText", error |-> error]

UnexpectedText == [kind |-> "UnexpectedText", error |-> ""]

UnexpectedChoice == [kind |-> "UnexpectedChoice", error |-> ""]

NoError == [kind |-> "", error |-> ""]

\* The outcome of BuildableValue::apply: the node as apply left it, and Ok(()), an
\* Err(ChooseError) or a panic.
ApplyOk(node) == [res |-> "ok", node |-> node, err |-> NoError]

ApplyErr(node, e) == [res |-> "err", node |-> node, err |-> e]

ApplyPanic(node) == [res |-> "panic", node |-> node, err |-> NoError]

\* The outcome r of apply on a child, seen from the parent whose state is node.
Lift(r, node) == [r EXCEPT !.node = node]

Choice(choice_id, text, needs_action) ==
    [choice_id |-> choice_id, text |-> text, needs_action |-> needs_action]

\* Options; panic marks a get_options call that panicked instead of returning.
Options(query, text_input, choices) ==
    [panic |-> FALSE, query |-> query, text_input |-> text_input, choices |-> choices]

OptionsPanic == [panic |-> TRUE, query |-> "", text_input |-> FALSE, choices |-> <<>>]

\* The result of get_subfields; panic marks a call that panicked.
Subfields(fields) == [panic |-> FALSE, fields |-> fields]

SubfieldsPanic == [panic |-> TRUE, fields |-> <<>>]

\* usize::from_str.
UsizeFromStr(s) == IntFromStr("usize", s)

\* The prompt of a text leaf (the $query of type_builder!).
TextPrompt(t) ==
    IF t \in IntTypes THEN "Type an integer"
    ELSE IF t = "char" THEN "Type a char"
    ELSE "Type a string"

\* A removal that takes the last element whatever the index.
RemoveAt_last(s, i) == SubSeq(s, 1, Len(s) - 1)

\* Sequence s without its i-th element (Vec::remove, 1-based here).
RemoveAt(s, i) == [j \in 1..(Len(s) - 1) |-> IF j < i THEN s[j] ELSE s[j + 1]]

\* The positions of the fields a struct shows (StructWithNamedFields::fields).
VisibleFields(name) ==
    LET fs == StructDef(name).fields
    IN  SelectSeq([i \in 1..Len(fs) |-> i], LAMBDA i : ~fs[i].hidden)

\* The position of the visible field called ident, 0 if there is none.
FieldIndex(name, ident) ==
    LET fs == StructDef(name).fields
        hit == {i \in 1..Len(fs) : ~fs[i].hidden /\ fs[i].ident = ident}
    IN  IF hit = {} THEN 0 ELSE CHOOSE i \in hit : TRUE

\* The position of the variant called ident, hidden or not, 0 if there is none.
VariantIndex_with_hidden(name, ident) ==
    LET vs == EnumDef(name).variants
        hit == {i \in 1..Len(vs) : vs[i].ident = ident}
    IN  IF hit = {} THEN 0 ELSE CHOOSE i \in hit : TRUE

\* The position of the variant called ident that is not hidden, 0 if there is none.
VariantIndex(name, ident) ==
    LET vs == EnumDef(name).variants
        hit == {i \in 1..Len(vs) : ~vs[i].hidden /\ vs[i].ident = ident}
    IN  IF hit = {} THEN 0 ELSE CHOOSE i \in hit : TRUE

(***************************************************************************)
(* BuildableValue::apply.                                                  *)
(***************************************************************************)
\* A text leaf that forgets its value when the text does not parse.
text_apply_clear_on_error(node, data, fields) ==
    IF fields # <<>> THEN ApplyPanic(node)
    ELSE IF data.kind = "Text"
    THEN LET r == FromStr(node.ty, data.data)
         IN  IF r.ok THEN ApplyOk([node EXCEPT !.value = <<r.v>>])
             ELSE ApplyErr([node EXCEPT !.value = <<>>], InvalidText(r.error))
    ELSE ApplyErr(node, UnexpectedChoice)

\* A text leaf that keeps the value it already has.
text_apply_keep_prior(node, data, fields) ==
    IF fields # <<>> THEN ApplyPanic(node)
    ELSE IF data.kind = "Text"
    THEN LET r == FromStr(node.ty, data.data)
         IN  IF r.ok
             THEN ApplyOk(IF node.value = <<>> THEN [node EXCEPT !.value = <<r.v>>] ELSE node)
             ELSE ApplyErr(node, InvalidText(r.error))
    ELSE ApplyErr(node, UnexpectedChoice)

\* A text leaf that reads the identifier of a choice as if it were typed text.
text_apply_any_input(node, data, fields) ==
    IF fields # <<>> THEN ApplyPanic(node)
    ELSE LET r == FromStr(node.ty, data.data)
         IN  IF r.ok THEN ApplyOk([node EXCEPT !.value = <<r.v>>])
             ELSE ApplyErr(node, InvalidText(r.error))

\* type_builder!: apply of the text leaves.
text_apply(node, data, fields) ==
    IF fields # <<>> THEN ApplyPanic(node)
    ELSE IF data.kind = "Text"
    THEN LET r == FromStr(node.ty, data.data)
         IN  IF r.ok THEN ApplyOk([node EXCEPT !.value = <<r.v>>])
             ELSE ApplyErr(node, InvalidText(r.error))
    ELSE ApplyErr(node, UnexpectedChoice)

\* A boolean leaf that takes every choice other than "true" for false.
bool_apply_lenient(node, data, fields) ==
    IF fields # <<>> THEN ApplyPanic(node)
    ELSE IF data.kind = "Choice"
    THEN IF data.data = s_true THEN ApplyOk([node EXCEPT !.value = <<TRUE>>])
         ELSE ApplyOk([node EXCEPT !.value = <<FALSE>>])
    ELSE ApplyErr(node, UnexpectedText)

\* BoolBuilder::apply.
bool_apply(node, data, fields) ==
    IF fields # <<>> THEN ApplyPanic(node)
    ELSE IF data.kind = "Choice"
    THEN IF data.data = s_true THEN ApplyOk([node EXCEPT !.value = <<TRUE>>])
         ELSE IF data.data = s_false THEN ApplyOk([node EXCEPT !.value = <<FALSE>>])
         ELSE ApplyErr(node, UnexpectedChoice)
    ELSE ApplyErr(node, UnexpectedText)

\* A sequence that puts a new element in front of the others.
vec_apply_new_at_front(node, data, fields) ==
    IF fields = <<>>
    THEN IF data.kind = "Choice" /\ data.data = s_new
         THEN ApplyOk([node EXCEPT !.items = <<new_buildable_value(node.of)>> \o @])
         ELSE IF data.kind = "Choice"
         THEN IF data.data # s_remove
              THEN LET index == UsizeFromStr(data.data)
                   IN  IF ~index.ok THEN ApplyErr(node, UnexpectedChoice)
                       ELSE IF index.v >= Len(node.items)
                       THEN ApplyErr(node, UnexpectedChoice)
                       ELSE ApplyOk(node)
              ELSE ApplyOk(node)
         ELSE ApplyErr(node, UnexpectedText)
    ELSE LET field == Head(fields)
             rest == Tail(fields)
         IN  IF field = s_remove
             THEN IF data.kind = "Choice"
                  THEN LET index == UsizeFromStr(data.data)
                       IN  IF ~index.ok THEN ApplyErr(node, UnexpectedChoice)
                           ELSE IF index.v >= Len(node.items)
                           THEN ApplyErr(node, UnexpectedChoice)
                           ELSE ApplyOk([node EXCEPT
                                            !.items = RemoveAt(@, index.v + 1)])
                  ELSE ApplyErr(node, UnexpectedText)
             ELSE IF field = s_new
             THEN IF node.items = <<>> THEN ApplyPanic(node)
                  ELSE LET r == apply(node.items[Len(node.items)], data, rest)
                       IN  Lift(r, [node EXCEPT !.items[Len(node.items)] = r.node])
             ELSE LET index == UsizeFromStr(field)
                  IN  IF ~index.ok \/ index.v >= Len(node.items) THEN ApplyPanic(node)
                      ELSE LET r == apply(node.items[index.v + 1], data, rest)
                           IN  Lift(r, [node EXCEPT !.items[index.v + 1] = r.node])

\* VecBuilder::apply.
vec_apply(node, data, fields) ==
    IF fields = <<>>
    THEN IF data.kind = "Choice" /\ data.data = s_new
         THEN ApplyOk([node EXCEPT !.items = Append(@, new_buildable_value(node.of))])
         ELSE IF data.kind = "Choice"
         THEN IF data.data # s_remove
              THEN LET index == UsizeFromStr(data.data)
                   IN  IF ~index.ok THEN ApplyErr(node, UnexpectedChoice)
                       ELSE IF index.v >= Len(node.items)
                       THEN ApplyErr(node, UnexpectedChoice)
                       ELSE ApplyOk(node)
              ELSE ApplyOk(node)
         ELSE ApplyErr(node, UnexpectedText)
    ELSE LET field == Head(fields)
             rest == Tail(fields)
         IN  IF field = s_remove
             THEN IF data.kind = "Choice"
                  THEN LET index == UsizeFromStr(data.data)
                       IN  IF ~index.ok THEN ApplyErr(node, UnexpectedChoice)
                           ELSE IF index.v >= Len(node.items)
                           THEN ApplyErr(node, UnexpectedChoice)
                           ELSE ApplyOk([node EXCEPT
                                            !.items = RemoveAt(@, index.v + 1)])
                  ELSE ApplyErr(node, UnexpectedText)
             ELSE IF field = s_new
             THEN IF node.items = <<>> THEN ApplyPanic(node)
                  ELSE LET r == apply(node.items[Len(node.items)], data, rest)
                       IN  Lift(r, [node EXCEPT !.items[Len(node.items)] = r.node])
             ELSE LET index == UsizeFromStr(field)
                  IN  IF ~index.ok \/ index.v >= Len(node.items) THEN ApplyPanic(node)
                      ELSE LET r == apply(node.items[index.v + 1], data, rest)
                           IN  Lift(r, [node EXCEPT !.items[index.v + 1] = r.node])

\* BoxBuilder::apply.
box_apply(node, data, fields) ==
    LET r == apply(node.value, data, fields)
    IN  Lift(r, [node EXCEPT !.value = r.node])

\* OptionBuilder::apply.
option_apply(node, data, fields) ==
    IF fields = <<>>
    THEN IF data.kind = "Choice"
         THEN IF data.data = s_remove THEN ApplyOk([node EXCEPT !.value = <<>>])
              ELSE IF data.data = s_edit THEN ApplyOk(node)
              ELSE IF data.data = s_set
              THEN ApplyOk([node EXCEPT !.value = <<new_buildable_value(node.of)>>])
              ELSE ApplyErr(node, UnexpectedChoice)
         ELSE ApplyErr(node, UnexpectedText)
    ELSE LET field == Head(fields)
             rest == Tail(fields)
         IN  IF field = s_edit \/ field = s_set
             THEN IF node.value = <<>> THEN ApplyPanic(node)
                  ELSE LET r == apply(node.value[1], data, rest)
                       IN  Lift(r, [node EXCEPT !.value = <<r.node>>])
             ELSE ApplyPanic(node)

\* An apply of a struct that takes the name of any field, shown or not, at its menu.
struct_apply_any_field(node, data, fields) ==
    IF fields = <<>>
    THEN IF data.kind = "Choice"
         THEN IF \E i \in 1..Len(StructDef(node.name).fields) :
                     StructDef(node.name).fields[i].ident = data.data
              THEN ApplyOk(node)
              ELSE ApplyErr(node, UnexpectedChoice)
         ELSE ApplyErr(node, UnexpectedText)
    ELSE LET i == FieldIndex(node.name, Head(fields))
         IN  IF i # 0
             THEN LET r == apply(node.fields[i], data, Tail(fields))
                  IN  Lift(r, [node EXCEPT !.fields[i] = r.node])
             ELSE ApplyErr(node, UnexpectedChoice)

\* An apply of a struct that builds the other fields anew when it forwards to one.
struct_apply_rebuild(node, data, fields) ==
    IF fields = <<>>
    THEN IF data.kind = "Choice"
         THEN IF FieldIndex(node.name, data.data) # 0 THEN ApplyOk(node)
              ELSE ApplyErr(node, UnexpectedChoice)
         ELSE ApplyErr(node, UnexpectedText)
    ELSE LET i == FieldIndex(node.name, Head(fields))
         IN  IF i # 0
             THEN LET r == apply(node.fields[i], data, Tail(fields))
                  IN  Lift(r, [struct_new(node.name) EXCEPT !.fields[i] = r.node])
             ELSE ApplyErr(node, UnexpectedChoice)

\* StructWithNamedFields::gen_fn_apply: apply of a struct with named fields.
struct_apply(node, data, fields) ==
    IF fields = <<>>
    THEN IF data.kind = "Choice"
         THEN IF FieldIndex(node.name, data.data) # 0 THEN ApplyOk(node)
              ELSE ApplyErr(node, UnexpectedChoice)
         ELSE ApplyErr(node, UnexpectedText)
    ELSE LET i == FieldIndex(node.name, Head(fields))
         IN  IF i # 0
             THEN LET r == apply(node.fields[i], data, Tail(fields))
                  IN  Lift(r, [node EXCEPT !.fields[i] = r.node])
             ELSE ApplyErr(node, UnexpectedChoice)

\* StructWithUnnamedFields::gen_fn_apply: apply of a struct with one unnamed field.
tuple_apply(node, data, fields) ==
    LET r == apply(node.value, data, fields)
    IN  Lift(r, [node EXCEPT !.value = r.node])

\* A variant menu that builds the chosen variant anew even when it is the active one.
enum_apply_select_menu_overwrite(node, data) ==
    IF data.kind = "Choice"
    THEN LET i == VariantIndex(node.name, data.data)
         IN  IF i = 0 THEN ApplyErr(node, UnexpectedChoice)
             ELSE ApplyOk([node EXCEPT !.value =
                              <<variant_builder_new(EnumDef(node.name).variants[i])>>])
    ELSE ApplyErr(node, UnexpectedText)

\* fn_apply_select_menu: the variant menu of an enum.
enum_apply_select_menu(node, data) ==
    IF data.kind = "Choice"
    THEN LET i == VariantIndex(node.name, data.data)
         IN  IF i = 0 THEN ApplyErr(node, UnexpectedChoice)
             ELSE IF node.value # <<>> /\ node.value[1].variant = data.data
             THEN ApplyOk(node)
             ELSE ApplyOk([node EXCEPT !.value =
                              <<variant_builder_new(EnumDef(node.name).variants[i])>>])
    ELSE ApplyErr(node, UnexpectedText)

\* fn_apply_inner_menu: apply forwarded to the active variant of an enum.
enum_apply_inner_menu(node, data, fields) ==
    LET i == VariantIndex(node.name, Head(fields))
    IN  IF i = 0 THEN ApplyPanic(node)
        ELSE IF EnumDef(node.name).variants[i].kind = "Empty" THEN ApplyPanic(node)
        ELSE IF node.value = <<>> THEN ApplyPanic(node)
        ELSE IF node.value[1].variant # Head(fields) THEN ApplyPanic(node)
        ELSE LET r == apply(node.value[1].inner[1], data, Tail(fields))
             IN  Lift(r, [node EXCEPT !.value[1].inner = <<r.node>>])

\* gen_fn_apply of an enum.
enum_apply(node, data, fields) ==
    IF fields = <<>> THEN enum_apply_select_menu(node, data)
    ELSE enum_apply_inner_menu(node, data, fields)

apply(node, data, fields) ==
    CASE node.k = "text" -> text_apply(node, data, fields)
      [] node.k = "bool" -> bool_apply(node, data, fields)
      [] node.k = "vec" -> vec_apply(node, data, fields)
      [] node.k = "box" -> box_apply(node, data, fields)
      [] node.k = "opt" -> option_apply(node, data, fields)
      [] node.k = "struct" -> struct_apply(node, data, fields)
      [] node.k = "tuple" -> tuple_apply(node, data, fields)
      [] node.k = "enum" -> enum_apply(node, data, fields)

(***************************************************************************)
(* BuildableValue::get_options.                                            *)
(***************************************************************************)
\* type_builder!: get_options of the text leaves.
text_get_options(node, fields) ==
    IF fields # <<>> THEN OptionsPanic
    ELSE Options(TextPrompt(node.ty), TRUE, <<>>)

\* BoolBuilder::get_options.
bool_get_options(node, fields) ==
    IF fields # <<>> THEN OptionsPanic
    ELSE Options("True or false?", FALSE,
                 << Choice(s_true, "true", FALSE), Choice(s_false, "false", FALSE) >>)

\* A sequence that offers the removal even when it has no element.
vec_get_options_remove_always(node, fields) ==
    IF fields = <<>>
    THEN Options("Select an action", FALSE,
                 <<Choice(s_new, "New element", FALSE)>> \o
                 <<Choice(s_remove, "Remove element", FALSE)>> \o
                 [i \in 1..Len(node.items) |->
                     Choice(NatToString(i - 1),
                            "Edit item " \o Join(NatToString(i - 1)),
                            get_value_any(node.items[i]) = <<>>)])
    ELSE LET field == Head(fields)
             rest == Tail(fields)
         IN  IF field = s_remove
             THEN Options("Select the item to remove", FALSE,
                          [i \in 1..Len(node.items) |->
                              Choice(NatToString(i - 1),
                                     "Remove item " \o Join(NatToString(i - 1)),
                                     FALSE)])
             ELSE IF field = s_new
             THEN IF node.items = <<>> THEN OptionsPanic
                  ELSE get_options(node.items[Len(node.items)], rest)
             ELSE LET index == UsizeFromStr(field)
                  IN  IF ~index.ok \/ index.v >= Len(node.items) THEN OptionsPanic
                      ELSE get_options(node.items[index.v + 1], rest)

\* VecBuilder::get_options.
vec_get_options(node, fields) ==
    IF fields = <<>>
    THEN Options("Select an action", FALSE,
                 <<Choice(s_new, "New element", FALSE)>> \o
                 (IF node.items # <<>>
                  THEN <<Choice(s_remove, "Remove element", FALSE)>> \o
                       [i \in 1..Len(node.items) |->
                           Choice(NatToString(i - 1),
                                  "Edit item " \o Join(NatToString(i - 1)),
                                  get_value_any(node.items[i]) = <<>>)]
                  ELSE <<>>))
    ELSE LET field == Head(fields)
             rest == Tail(fields)
         IN  IF field = s_remove
             THEN Options("Select the item to remove", FALSE,
                          [i \in 1..Len(node.items) |->
                              Choice(NatToString(i - 1),
                                     "Remove item " \o Join(NatToString(i - 1)),
                                     FALSE)])
             ELSE IF field = s_new
             THEN IF node.items = <<>> THEN OptionsPanic
                  ELSE get_options(node.items[Len(node.items)], rest)
             ELSE LET index == UsizeFromStr(field)
                  IN  IF ~index.ok \/ index.v >= Len(node.items) THEN OptionsPanic
                      ELSE get_options(node.items[index.v + 1], rest)

\* BoxBuilder::get_options.
box_get_options(node, fields) == get_options(node.value, fields)

\* An optional that offers its three choices whether it is set or not.
option_get_options_all(node, fields) ==
    IF fields = <<>>
    THEN Options("Choose an option", FALSE,
                 << Choice(s_remove, "Remove value", FALSE),
                    Choice(s_edit, "Edit value", FALSE),
                    Choice(s_set, "Set value", FALSE) >>)
    ELSE IF Head(fields) = s_edit \/ Head(fields) = s_set
    THEN IF node.value = <<>> THEN OptionsPanic
         ELSE get_options(node.value[1], Tail(fields))
    ELSE OptionsPanic

\* OptionBuilder::get_options.
option_get_options(node, fields) ==
    IF fields = <<>>
    THEN Options("Choose an option", FALSE,
                 IF node.value # <<>>
                 THEN << Choice(s_remove, "Remove value", FALSE),
                         Choice(s_edit, "Edit value", FALSE) >>
                 ELSE << Choice(s_set, "Set value", FALSE) >>)
    ELSE IF Head(fields) = s_edit \/ Head(fields) = s_set
    THEN IF node.value = <<>> THEN OptionsPanic
         ELSE get_options(node.value[1], Tail(fields))
    ELSE OptionsPanic

\* A record menu that never flags a field as needing action.
struct_get_options_no_flags(node, fields) ==
    IF fields = <<>>
    THEN LET fs == StructDef(node.name).fields
             shown == VisibleFields(node.name)
         IN  Options("Select the field to edit", FALSE,
                     [j \in 1..Len(shown) |->
                         Choice(fs[shown[j]].ident,
                                "Edit " \o Join(fs[shown[j]].ident),
                                FALSE)])
    ELSE LET i == FieldIndex(node.name, Head(fields))
         IN  IF i # 0 THEN get_options(node.fields[i], Tail(fields))
             ELSE OptionsPanic

\* StructWithNamedFields::gen_fn_get_options.
struct_get_options(node, fields) ==
    IF fields = <<>>
    THEN LET fs == StructDef(node.name).fields
             shown == VisibleFields(node.name)
         IN  Options("Select the field to edit", FALSE,
                     [j \in 1..Len(shown) |->
                         Choice(fs[shown[j]].ident,
                                "Edit " \o Join(fs[shown[j]].ident),
                                get_value_any(node.fields[shown[j]]) = <<>>)])
    ELSE LET i == FieldIndex(node.name, Head(fields))
         IN  IF i # 0 THEN get_options(node.fields[i], Tail(fields))
             ELSE OptionsPanic

\* StructWithUnnamedFields::gen_fn_get_options.
tuple_get_options(node, fields) == get_options(node.value, fields)

\* The positions of the variants an enum shows.
VisibleVariants_with_hidden(name) ==
    LET vs == EnumDef(name).variants
    IN  [i \in 1..Len(vs) |-> i]

VisibleVariants(name) ==
    LET vs == EnumDef(name).variants
    IN  SelectSeq([i \in 1..Len(vs) |-> i], LAMBDA i : ~vs[i].hidden)

\* fn_get_options_select_menu: the variant menu of an enum.
enum_get_options_select_menu(node) ==
    LET vs == EnumDef(node.name).variants
        shown == VisibleVariants(node.name)
        needs_action(v) ==
            IF v.kind = "Empty" THEN FALSE
            ELSE IF node.value # <<>> /\ node.value[1].variant = v.ident
            THEN get_value_any(node.value[1].inner[1]) = <<>>
            ELSE FALSE
    IN  Options("Select a variant", FALSE,
                [j \in 1..Len(shown) |->
                    Choice(vs[shown[j]].ident, Join(vs[shown[j]].ident),
                           needs_action(vs[shown[j]]))])

\* fn_get_options_inner_menu: get_options forwarded to the active variant.
enum_get_options_inner_menu(node, fields) ==
    LET i == VariantIndex(node.name, Head(fields))
    IN  IF i = 0 THEN OptionsPanic
        ELSE IF EnumDef(node.name).variants[i].kind = "Empty" THEN OptionsPanic
        ELSE IF node.value = <<>> THEN OptionsPanic
        ELSE IF node.value[1].variant # Head(fields) THEN OptionsPanic
        ELSE get_options(node.value[1].inner[1], Tail(fields))

\* gen_fn_get_options of an enum.
enum_get_options(node, fields) ==
    IF fields = <<>> THEN enum_get_options_select_menu(node)
    ELSE enum_get_options_inner_menu(node, fields)

get_options(node, fields) ==
    CASE node.k = "text" -> text_get_options(node, fields)
      [] node.k = "bool" -> bool_get_options(node, fields)
      [] node.k = "vec" -> vec_get_options(node, fields)
      [] node.k = "box" -> box_get_options(node, fields)
      [] node.k = "opt" -> option_get_options(node, fields)
      [] node.k = "struct" -> struct_get_options(node, fields)
      [] node.k = "tuple" -> tuple_get_options(node, fields)
      [] node.k = "enum" -> enum_get_options(node, fields)

(***************************************************************************)
(* BuildableValue::get_subfields.                                          *)
(***************************************************************************)
\* type_builder_boilerplate!: a leaf has no subfields, whatever the path.
leaf_get_subfields(node, fields) == Subfields(<<>>)

\* VecBuilder::get_subfields.
vec_get_subfields(node, fields) ==
    IF fields = <<>>
    THEN IF node.items = <<>> THEN Subfields(<<s_new>>)
         ELSE Subfields(<<s_new, s_remove>> \o
                        [i \in 1..Len(node.items) |-> NatToString(i - 1)])
    ELSE LET field == Head(fields)
             rest == Tail(fields)
         IN  IF field = s_remove THEN Subfields(<<>>)
             ELSE IF field = s_new
             THEN IF node.items = <<>> THEN SubfieldsPanic
                  ELSE get_subfields(node.items[Len(node.items)], rest)
             ELSE LET index == UsizeFromStr(field)
                  IN  IF ~index.ok \/ index.v >= Len(node.items) THEN SubfieldsPanic
                      ELSE get_subfields(node.items[index.v + 1], rest)

\* A box that hides the subfields of what it holds.
box_get_subfields_none(node, fields) == Subfields(<<>>)

\* BoxBuilder::get_subfields.
box_get_subfields(node, fields) == get_subfields(node.value, fields)

\* An optional that names both of its subfields whether it is set or not.
option_get_subfields_both(node, fields) ==
    IF fields = <<>>
    THEN Subfields(<<s_edit, s_set>>)
    ELSE IF Head(fields) = s_edit \/ Head(fields) = s_set
    THEN IF node.value = <<>> THEN SubfieldsPanic
         ELSE get_subfields(node.value[1], Tail(fields))
    ELSE SubfieldsPanic

\* OptionBuilder::get_subfields.
option_get_subfields(node, fields) ==
    IF fields = <<>>
    THEN IF node.value # <<>> THEN Subfields(<<s_edit>>) ELSE Subfields(<<s_set>>)
    ELSE IF Head(fields) = s_edit \/ Head(fields) = s_set
    THEN IF node.value = <<>> THEN SubfieldsPanic
         ELSE get_subfields(node.value[1], Tail(fields))
    ELSE SubfieldsPanic

\* StructWithNamedFields::gen_fn_get_subfields.
struct_get_subfields(node, fields) ==
    IF fields = <<>>
    THEN LET fs == StructDef(node.name).fields
             shown == VisibleFields(node.name)
         IN  Subfields([j \in 1..Len(shown) |-> fs[shown[j]].ident])
    ELSE LET i == FieldIndex(node.name, Head(fields))
         IN  IF i # 0 THEN get_subfields(node.fields[i], Tail(fields))
             ELSE SubfieldsPanic

\* StructWithUnnamedFields::gen_fn_get_subfields.
tuple_get_subfields(node, fields) == get_subfields(node.value, fields)

\* An enum that names its variants without fields among its subfields too.
enum_get_subfields_with_empty(node, fields) ==
    LET vs == EnumDef(node.name).variants
        shown == SelectSeq([i \in 1..Len(vs) |-> i], LAMBDA i : ~vs[i].hidden)
    IN  IF fields = <<>> THEN Subfields([j \in 1..Len(shown) |-> vs[shown[j]].ident])
        ELSE IF ~\E j \in 1..Len(shown) : vs[shown[j]].ident = Head(fields)
        THEN SubfieldsPanic
        ELSE IF node.value = <<>> THEN SubfieldsPanic
        ELSE IF node.value[1].variant # Head(fields) THEN SubfieldsPanic
        ELSE IF node.value[1].inner = <<>> THEN Subfields(<<>>)
        ELSE get_subfields(node.value[1].inner[1], Tail(fields))

\* gen_fn_get_subfields of an enum: the variants with fields that are not hidden.
enum_get_subfields(node, fields) ==
    LET vs == EnumDef(node.name).variants
        shown == SelectSeq([i \in 1..Len(vs) |-> i],
                           LAMBDA i : vs[i].kind # "Empty" /\ ~vs[i].hidden)
    IN  IF fields = <<>> THEN Subfields([j \in 1..Len(shown) |-> vs[shown[j]].ident])
        ELSE IF ~\E j \in 1..Len(shown) : vs[shown[j]].ident = Head(fields)
        THEN SubfieldsPanic
        ELSE IF node.value = <<>> THEN SubfieldsPanic
        ELSE IF node.value[1].variant # Head(fields) THEN SubfieldsPanic
        ELSE get_subfields(node.value[1].inner[1], Tail(fields))

get_subfields(node, fields) ==
    CASE node.k \in {"text", "bool"} -> leaf_get_subfields(node, fields)
      [] node.k = "vec" -> vec_get_subfields(node, fields)
      [] node.k = "box" -> box_get_subfields(node, fields)
      [] node.k = "opt" -> option_get_subfields(node, fields)
      [] node.k = "struct" -> struct_get_subfields(node, fields)
      [] node.k = "tuple" -> tuple_get_subfields(node, fields)
      [] node.k = "enum" -> enum_get_subfields(node, fields)

(***************************************************************************)
(* Builder<T>.                                                             *)
(***************************************************************************)
\* Builder::is_done.
is_done(builder) == get_value_any(builder) # <<>>

\* Builder::finalize: Ok(value) or Err(FinalizeError::MissingField).
finalize(builder) ==
    LET v == get_value_any(builder)
    IN  IF v = <<>> THEN [ok |-> FALSE, value |-> <<>>, error |-> "MissingField"]
        ELSE [ok |-> TRUE, value |-> v, error |-> ""]

\* A builder that offers the finish choice at every path once the root is complete.
Builder_get_options_finish_anywhere(builder, fields) ==
    LET options == get_options(builder, fields)
        back == IF fields = <<>> THEN <<>> ELSE <<Choice(BACK_ID, "Go back", FALSE)>>
        finish == IF is_done(builder) THEN <<Choice(FINALIZE_ID, "Done", FALSE)>> ELSE <<>>
    IN  IF options.panic THEN options
        ELSE [options EXCEPT !.choices = @ \o finish \o back]

\* A builder that offers the back choice at the root too.
Builder_get_options_back_at_root(builder, fields) ==
    LET options == get_options(builder, fields)
    IN  IF options.panic THEN options
        ELSE IF fields = <<>> /\ is_done(builder)
        THEN [options EXCEPT !.choices = @ \o << Choice(FINALIZE_ID, "Done", FALSE),
                                                 Choice(BACK_ID, "Go back", FALSE) >>]
        ELSE [options EXCEPT !.choices = Append(@, Choice(BACK_ID, "Go back", FALSE))]

\* A builder that appends the back choice once for every segment of the path.
Builder_get_options_back_per_segment(builder, fields) ==
    LET options == get_options(builder, fields)
    IN  IF options.panic THEN options
        ELSE IF fields = <<>>
        THEN IF is_done(builder)
             THEN [options EXCEPT !.choices = Append(@, Choice(FINALIZE_ID, "Done", FALSE))]
             ELSE options
        ELSE [options EXCEPT !.choices =
                 @ \o [i \in 1..Len(fields) |-> Choice(BACK_ID, "Go back", FALSE)]]

\* Builder::get_options.
Builder_get_options(builder, fields) ==
    LET options == get_options(builder, fields)
    IN  IF options.panic THEN options
        ELSE IF fields = <<>>
        THEN IF is_done(builder)
             THEN [options EXCEPT !.choices = Append(@, Choice(FINALIZE_ID, "Done", FALSE))]
             ELSE options
        ELSE [options EXCEPT !.choices = Append(@, Choice(BACK_ID, "Go back", FALSE))]

\* What Builder::choose returns: Ok(None), Ok(Some(value)), Err(error), or a panic.
OkNone == [kind |-> "Ok", value |-> <<>>, err |-> NoError]

OkSome(v) == [kind |-> "Ok", value |-> <<v>>, err |-> NoError]

Err(e) == [kind |-> "Err", value |-> <<>>, err |-> e]

Panicked == [kind |-> "panic", value |-> <<>>, err |-> NoError]

NotCalled == [kind |-> "new", value |-> <<>>, err |-> NoError]

\* Vec::pop: the path without its last segment, the empty path as it is.
Pop(fields) == IF fields = <<>> THEN <<>> ELSE SubSeq(fields, 1, Len(fields) - 1)

\* The builder after a call: its tree, its path and what the call returned.
After(builder, fields, res) == [builder |-> builder, current_fields |-> fields, result |-> res]

\* A choose that stays on the focused node after applying an input to it.
choose_apply_stay(builder, fields, input) ==
    LET subfields == get_subfields(builder, fields)
    IN  IF subfields.panic THEN After(builder, fields, Panicked)
        ELSE LET r == apply(builder, input, fields)
                 descend == input.kind = "Choice" /\
                            \E i \in 1..Len(subfields.fields) :
                                subfields.fields[i] = input.data
             IN  IF r.res = "panic" THEN After(r.node, fields, Panicked)
                 ELSE IF r.res = "err" THEN After(r.node, fields, Err(r.err))
                 ELSE IF descend THEN After(r.node, Append(fields, input.data), OkNone)
                 ELSE After(r.node, fields, OkNone)

\* A choose that descends into a subfield without applying the choice first.
choose_apply_descend_only(builder, fields, input) ==
    LET subfields == get_subfields(builder, fields)
    IN  IF subfields.panic THEN After(builder, fields, Panicked)
        ELSE LET r == apply(builder, input, fields)
                 descend == input.kind = "Choice" /\
                            \E i \in 1..Len(subfields.fields) :
                                subfields.fields[i] = input.data
             IN  IF descend THEN After(builder, Append(fields, input.data), OkNone)
                 ELSE IF r.res = "panic" THEN After(r.node, fields, Panicked)
                 ELSE IF r.res = "err" THEN After(r.node, fields, Err(r.err))
                 ELSE After(r.node, Pop(fields), OkNone)

\* The part of Builder::choose after the finish and back cases: descend into a
\* subfield, or apply to the focused node and go up.
choose_apply(builder, fields, input) ==
    LET subfields == get_subfields(builder, fields)
    IN  IF subfields.panic THEN After(builder, fields, Panicked)
        ELSE LET r == apply(builder, input, fields)
                 descend == input.kind = "Choice" /\
                            \E i \in 1..Len(subfields.fields) :
                                subfields.fields[i] = input.data
             IN  IF r.res = "panic" THEN After(r.node, fields, Panicked)
                 ELSE IF r.res = "err" THEN After(r.node, fields, Err(r.err))
                 ELSE IF descend THEN After(r.node, Append(fields, input.data), OkNone)
                 ELSE After(r.node, Pop(fields), OkNone)

\* A choose that finishes from any path once the root is complete.
choose_finish_anywhere(builder, fields, input) ==
    IF input.kind = "Choice" /\ input.data = FINALIZE_ID /\ is_done(builder)
    THEN After(builder, fields, OkSome(finalize(builder).value[1]))
    ELSE IF fields # <<>> /\ input.kind = "Choice" /\ input.data = BACK_ID
    THEN After(builder, Pop(fields), OkNone)
    ELSE choose_apply(builder, fields, input)

\* A choose whose back choice returns to the root menu.
choose_back_to_root(builder, fields, input) ==
    IF fields = <<>> /\ input.kind = "Choice" /\ input.data = FINALIZE_ID /\ is_done(builder)
    THEN After(builder, fields, OkSome(finalize(builder).value[1]))
    ELSE IF fields # <<>> /\ input.kind = "Choice" /\ input.data = BACK_ID
    THEN After(builder, <<>>, OkNone)
    ELSE choose_apply(builder, fields, input)

\* A choose whose finish takes the value out: the builder starts over.
choose_finish_consumes(builder, fields, input) ==
    IF fields = <<>> /\ input.kind = "Choice" /\ input.data = FINALIZE_ID /\ is_done(builder)
    THEN After(CASE builder.k = "struct" -> new_buildable_value(TStruct(builder.name))
                 [] builder.k = "enum" -> new_buildable_value(TEnum(builder.name))
                 [] builder.k = "vec" -> [builder EXCEPT !.items = <<>>]
                 [] builder.k = "opt" -> [builder EXCEPT !.value = <<>>]
                 [] OTHER -> builder,
               fields, OkSome(finalize(builder).value[1]))
    ELSE IF fields # <<>> /\ input.kind = "Choice" /\ input.data = BACK_ID
    THEN After(builder, Pop(fields), OkNone)
    ELSE choose_apply(builder, fields, input)

\* A choose that reads the reserved identifiers in a Text as it does in a Choice.
choose_text_navigates(builder, fields, input) ==
    IF fields = <<>> /\ input.data = FINALIZE_ID /\ is_done(builder)
    THEN After(builder, fields, OkSome(finalize(builder).value[1]))
    ELSE IF fields # <<>> /\ input.data = BACK_ID
    THEN After(builder, Pop(fields), OkNone)
    ELSE choose_apply(builder, fields, input)

\* Builder::choose.
choose(builder, fields, input) ==
    IF fields = <<>> /\ input.kind = "Choice" /\ input.data = FINALIZE_ID /\ is_done(builder)
    THEN After(builder, fields, OkSome(finalize(builder).value[1]))
    ELSE IF fields # <<>> /\ input.kind = "Choice" /\ input.data = BACK_ID
    THEN After(builder, Pop(fields), OkNone)
    ELSE choose_apply(builder, fields, input)

(***************************************************************************)
(* The inputs tried and the bound on the size of the tree.                 *)
(***************************************************************************)
s_nope == <<"n", "o", "p", "e">>

\* The identifiers given as Input::Choice: every identifier a menu of the types
\* under test can show, and identifiers no menu shows.
ChoiceIds ==
    { FINALIZE_ID, BACK_ID, s_new, s_remove, s_edit, s_set, s_true, s_false,
      s_integer, s_defaulted, s_inner, s_string, s_field, s_enm, s_bar, s_baz,
      s_lol, s_f_bool, s_items, s_foo, s_Items, s_Var1, s_Var2, s_Var3,
      <<"0">>, <<"1">>, <<"2">>, <<"0", "0">>, <<"+", "0">>, s_nope }

\* The strings given as Input::Text.
Texts == { <<"7">>, <<"1">>, BACK_ID, FINALIZE_ID }

Inputs == {Choice_(id) : id \in ChoiceIds} \cup {Text_(t) : t \in Texts}

\* The number of sequence elements in the nodes[i..] and below.
SumItems(nodes, i) ==
    IF i > Len(nodes) THEN 0 ELSE CountItems(nodes[i]) + SumItems(nodes, i + 1)

\* The number of sequence elements in the tree of node.
CountItems(node) ==
    CASE node.k \in {"text", "bool", "hidden"} -> 0
      [] node.k = "vec" -> Len(node.items) + SumItems(node.items, 1)
      [] node.k \in {"box", "tuple"} -> CountItems(node.value)
      [] node.k = "opt" -> SumItems(node.value, 1)
      [] node.k = "struct" -> SumItems(node.fields, 1)
      [] node.k = "enum" ->
            IF node.value = <<>> THEN 0 ELSE SumItems(node.value[1].inner, 1)

(***************************************************************************)
(* BuildableValue::to_node: the tree shown to the user.  A Node is a Leaf  *)
(* with a Field (Missing, or String(text)) or a Composite with a name and  *)
(* its fields, each Named(name, node) or Unnamed(node).                    *)
(***************************************************************************)
s_None == <<"N", "o", "n", "e">>

\* Node::Leaf(Field::Missing) for <<>>, Node::Leaf(Field::String(text)) for <<text>>.
Leaf(field) == [n |-> "Leaf", field |-> field]

\* to_node reached unreachable!().
NodePanic == [n |-> "panic"]

\* Node::Composite(name, fields); a panic below is a panic here.
Composite(name, fields) ==
    IF \E i \in 1..Len(fields) : fields[i].node.n = "panic" THEN NodePanic
    ELSE [n |-> "Composite", name |-> name, fields |-> fields]

to_node(node) ==
    CASE node.k = "text" ->
            Leaf(IF node.value = <<>> THEN <<>>
                 ELSE <<ValueToString(node.ty, node.value[1])>>)
      [] node.k = "bool" ->
            Leaf(IF node.value = <<>> THEN <<>>
                 ELSE IF node.value[1] THEN <<s_true>> ELSE <<s_false>>)
      [] node.k = "vec" ->
            Composite("", [i \in 1..Len(node.items) |->
                              [named |-> <<>>, node |-> to_node(node.items[i])]])
      [] node.k = "box" -> to_node(node.value)
      [] node.k = "opt" ->
            IF node.value = <<>> THEN Leaf(<<s_None>>) ELSE to_node(node.value[1])
      [] node.k = "struct" ->
            LET fs == StructDef(node.name).fields
                shown == VisibleFields(node.name)
            IN  Composite(node.name,
                          [j \in 1..Len(shown) |->
                              [named |-> <<fs[shown[j]].ident>>,
                               node |-> to_node(node.fields[shown[j]])]])
      [] node.k = "tuple" ->
            Composite(node.name, <<[named |-> <<>>, node |-> to_node(node.value)]>>)
      [] node.k = "enum" ->
            IF node.value = <<>> THEN Leaf(<<>>)
            ELSE LET i == VariantIndex(node.name, node.value[1].variant)
                     var == EnumDef(node.name).variants[i]
                 IN  IF i = 0 THEN NodePanic
                     ELSE IF var.kind = "Empty" THEN Leaf(<<var.ident>>)
                     ELSE LET inner_node == to_node(node.value[1].inner[1])
                          IN  IF var.kind = "Unnamed" THEN inner_node
                              ELSE IF inner_node.n # "Composite" THEN NodePanic
                              ELSE Composite(Join(var.ident), inner_node.fields)

(***************************************************************************)
(* The read-only calls of a Builder: get_options, is_done, finalize and    *)
(* to_node take &self.                                                     *)
(***************************************************************************)
ReadOps == {"get_options", "is_done", "finalize", "to_node"}

NotObserved == [op |-> "none"]

\* A read-only call that lets go of the last path segment.
read_pop(builder, fields, op) ==
    [builder |-> builder, current_fields |-> Pop(fields),
     value |-> CASE op = "get_options" -> Builder_get_options(builder, fields)
                 [] op = "is_done" -> is_done(builder)
                 [] op = "finalize" -> finalize(builder)
                 [] op = "to_node" -> to_node(builder)]

\* The builder after a read-only call, and what the call returned.
read(builder, fields, op) ==
    [builder |-> builder, current_fields |-> fields,
     value |-> CASE op = "get_options" -> Builder_get_options(builder, fields)
                 [] op = "is_done" -> is_done(builder)
                 [] op = "finalize" -> finalize(builder)
                 [] op = "to_node" -> to_node(builder)]

(***************************************************************************)
(* What the caller has supplied.  For the records whose leaves are text    *)
(* leaves, booleans and sequences of text leaves, supplied maps the path of*)
(* a leaf to the value last given for it: the path as the caller walked    *)
(* it, with "__new" read as the index of the element it added, and with    *)
(* the indices after a removed element moved down by one.                  *)
(***************************************************************************)
Tracked(builder) ==
    builder.k = "struct" /\ builder.name \in {"Base", "StructWithoutDefault"}

\* The path with every "__new" replaced by the index of the last element.
NormalPath(node, fields) ==
    IF fields = <<>> THEN <<>>
    ELSE CASE node.k = "vec" ->
                 IF Head(fields) = s_remove THEN fields
                 ELSE IF Head(fields) = s_new
                 THEN <<NatToString(Len(node.items) - 1)>> \o
                      NormalPath(node.items[Len(node.items)], Tail(fields))
                 ELSE <<Head(fields)>> \o
                      NormalPath(node.items[UsizeFromStr(Head(fields)).v + 1], Tail(fields))
           [] node.k = "struct" ->
                 <<Head(fields)>> \o
                 NormalPath(node.fields[FieldIndex(node.name, Head(fields))], Tail(fields))
           [] OTHER -> fields

\* Whether key is the path of an element of the sequence at path p.
IsElement(key, p) == Len(key) = Len(p) + 1 /\ SubSeq(key, 1, Len(p)) = p

\* supplied after the element at index i of the sequence at path p was removed.
Rekey(sup, p, i) ==
    LET index(key) == UsizeFromStr(key[Len(key)]).v
        kept == {key \in DOMAIN sup : ~IsElement(key, p) \/ index(key) < i}
        moved == {key \in DOMAIN sup : IsElement(key, p) /\ index(key) > i}
        down(key) == p \o <<NatToString(index(key) - 1)>>
    IN  [key \in kept \cup {down(k) : k \in moved} |->
            IF IsElement(key, p) /\ index(key) >= i
            THEN sup[p \o <<NatToString(index(key) + 1)>>]
            ELSE sup[key]]

\* supplied after choose(input) on the given tree and path returned res.
Supply(sup, builder, fields, input, res) ==
    IF ~Tracked(builder) \/ res # OkNone THEN sup
    ELSE LET focus == Unwrap(Focus(builder, fields))
             key == NormalPath(builder, fields)
         IN  IF input.kind = "Text"
             THEN (key :> FromStr(focus.ty, input.data).v) @@ sup
             ELSE IF focus.k = "bool" /\ input.data \in {s_true, s_false}
             THEN (key :> (input.data = s_true)) @@ sup
             ELSE IF focus.k = "remove" /\ input.data # BACK_ID
             THEN Rekey(sup, SubSeq(key, 1, Len(key) - 1), UsizeFromStr(input.data).v)
             ELSE sup

(***************************************************************************)
(* The state machine: a fresh Builder, then any calls of choose.           *)
(***************************************************************************)
\* Buildable::builder() for one of the types under test.
Init ==
    /\ \E ty \in RootTypes : root = new_buildable_value(ty)
    /\ current_fields = <<>>
    /\ result = NotCalled
    /\ supplied = <<>>
    /\ observed = NotObserved

\* One call of Builder::choose. A panic ends the program.
Choose(input) ==
    /\ result.kind # "panic"
    /\ \E after \in {choose(root, current_fields, input)} :
           /\ CountItems(after.builder) <= MaxItems
           /\ root' = after.builder
           /\ current_fields' = after.current_fields
           /\ result' = after.result
           /\ supplied' = Supply(supplied, root, current_fields, input, after.result)
           /\ observed' = NotObserved

\* choose(Input::Choice(id)).
ChooseChoice == \E id \in ChoiceIds : Choose(Choice_(id))

\* choose(Input::Text(text)).
ChooseText == \E text \in Texts : Choose(Text_(text))

Next == ChooseChoice \/ ChooseText

Spec == Init /\ [][Next]_vars

(***************************************************************************)
(* The text leaves on their own: a Builder for each leaf type, and for the *)
(* records whose leaves have defaults, given texts that parse and texts    *)
(* that do not.  The smallest i32 is left out: its negation has no 32-bit  *)
(* representation.                                                         *)
(***************************************************************************)
LeafTypes == IntTypes \cup {"String", "char"}

LeafRoots ==
    {TText(t) : t \in LeafTypes} \cup {TStruct("default::Foo"), TStruct("Inner")}

ParseTexts ==
    { <<>>, <<"7">>, <<"x">>, <<"-">>, <<"-", "1">>, <<"+", "5">>, <<"0", "0">>,
      <<"1", "2", "7">>, <<"1", "2", "8">>, <<"-", "1", "2", "8">>,
      <<"-", "1", "2", "9">>, <<"2", "5", "6">>, <<"6", "5", "5", "3", "6">>,
      <<"2", "1", "4", "7", "4", "8", "3", "6", "4", "7">>,
      <<"2", "1", "4", "7", "4", "8", "3", "6", "4", "8">> }

InitLeaf ==
    /\ \E ty \in LeafRoots : root = new_buildable_value(ty)
    /\ current_fields = <<>>
    /\ result = NotCalled
    /\ supplied = <<>>
    /\ observed = NotObserved

\* choose(Input::Text(text)) on a leaf.
LeafText == \E text \in ParseTexts : Choose(Text_(text))

\* choose(Input::Choice(id)) to move between a record and its leaves.
LeafChoice == \E id \in {s_bar, s_string, s_defaulted, BACK_ID} : Choose(Choice_(id))

NextLeaf == LeafText \/ LeafChoice

SpecLeaf == InitLeaf /\ [][NextLeaf]_vars

(***************************************************************************)
(* The read-only calls between the calls of choose, for some of the types. *)
(***************************************************************************)
ReadRoots ==
    { TStruct("Struct"), TStruct("Foo"), TEnum("Defaulted"), TVec(TOption(TText("i32"))) }

InitRead ==
    /\ \E ty \in ReadRoots : root = new_buildable_value(ty)
    /\ current_fields = <<>>
    /\ result = NotCalled
    /\ supplied = <<>>
    /\ observed = NotObserved

\* One call of get_options, is_done, finalize or to_node.
Read(op) ==
    /\ result.kind # "panic"
    /\ \E after \in {read(root, current_fields, op)} :
           /\ root' = after.builder
           /\ current_fields' = after.current_fields
           /\ observed' = [op |-> op, value |-> after.value]
           /\ result' = IF (op = "get_options" /\ after.value.panic)
                          \/ (op = "to_node" /\ after.value.n = "panic")
                       THEN Panicked ELSE result
           /\ UNCHANGED supplied

ReadOnly == \E op \in ReadOps : Read(op)

NextRead == ChooseChoice \/ ChooseText \/ ReadOnly

SpecRead == InitRead /\ [][NextRead]_vars

(***************************************************************************)
(* What the properties speak of.                                           *)
(***************************************************************************)
\* The menu of the builder in the current state.
Menu == Builder_get_options(root, current_fields)

\* Whether a menu lists a choice with this identifier.
HasChoice(options, id) ==
    \E i \in 1..Len(options.choices) : options.choices[i].choice_id = id

\* What choose(input) would do in the current state.
Chosen(input) == choose(root, current_fields, input)

\* A call that left the tree and the path as they are.
Unchanged(after) == after.builder = root /\ after.current_fields = current_fields

\* The node the path addresses; the remove sub-menu of a sequence is shown as a
\* node of its own kind.
Focus(node, fields) ==
    IF fields = <<>> THEN node
    ELSE CASE node.k = "vec" ->
                 IF Head(fields) = s_remove THEN [k |-> "remove", of |-> node]
                 ELSE IF Head(fields) = s_new
                 THEN Focus(node.items[Len(node.items)], Tail(fields))
                 ELSE Focus(node.items[UsizeFromStr(Head(fields)).v + 1], Tail(fields))
           [] node.k \in {"box", "tuple"} -> Focus(node.value, fields)
           [] node.k = "opt" -> Focus(node.value[1], Tail(fields))
           [] node.k = "struct" ->
                 Focus(node.fields[FieldIndex(node.name, Head(fields))], Tail(fields))
           [] node.k = "enum" -> Focus(node.value[1].inner[1], Tail(fields))

\* The focused node, seen through the boxes and one-field structs around it.
Unwrap(node) == IF node.k \in {"box", "tuple"} THEN Unwrap(node.value) ELSE node

Focused == Focus(root, current_fields)

\* The builder after n back choices, starting from the given tree and path.
Backs(builder, fields, n) ==
    IF n = 0 THEN After(builder, fields, NotCalled)
    ELSE LET after == choose(builder, fields, Choice_(BACK_ID))
         IN  IF n = 1 THEN after ELSE Backs(after.builder, after.current_fields, n - 1)

(***************************************************************************)
(* The properties.                                                         *)
(***************************************************************************)
\* C1, as stated: the menu lists the finish choice exactly when the root is
\* complete, at any path.
C1_FinishListedIffDone == HasChoice(Menu, FINALIZE_ID) <=> is_done(root)

\* C1, amended: the menu lists the finish choice exactly when the path is empty
\* and the root is complete.
C1_FinishListedIffDoneAtRoot ==
    HasChoice(Menu, FINALIZE_ID) <=> (current_fields = <<>> /\ is_done(root))

\* A complete root seen from inside a subfield: no finish choice there.
C1_Witness ==
    /\ result = OkNone
    /\ current_fields # <<>>
    /\ is_done(root)
    /\ ~HasChoice(Menu, FINALIZE_ID)

\* C2: choose returns Ok(Some(v)) exactly for Choice(FINALIZE_ID) at the empty
\* path with a complete root, and then v is what finalize returns.
C2_FinishReturnsValue ==
    \A input \in Inputs :
        LET after == Chosen(input)
            finishing == /\ input = Choice_(FINALIZE_ID)
                         /\ current_fields = <<>>
                         /\ is_done(root)
        IN  /\ finishing =>
                /\ finalize(root).ok
                /\ after.result = OkSome(finalize(root).value[1])
            /\ (after.result.kind = "Ok" /\ after.result.value # <<>>) => finishing

\* A finish that returned the value of a record built by earlier inputs.
C2_Witness ==
    /\ result.kind = "Ok"
    /\ result.value # <<>>
    /\ root.k = "struct"
    /\ root.name = "Base"
    /\ result.value = get_value_any(root)

\* C3: whenever the menu does not list the finish choice, Choice(FINALIZE_ID)
\* returns Err(UnexpectedChoice) and leaves the path and the tree as they are.
C3_FinishRejectedWhenNotListed ==
    ~HasChoice(Menu, FINALIZE_ID) =>
        LET after == Chosen(Choice_(FINALIZE_ID))
        IN  after.result = Err(UnexpectedChoice) /\ Unchanged(after)

\* The finish choice rejected at a boolean leaf below the root.
C3_Witness ==
    /\ current_fields # <<>>
    /\ Unwrap(Focused).k = "bool"
    /\ ~HasChoice(Menu, FINALIZE_ID)
    /\ Chosen(Choice_(FINALIZE_ID)).result = Err(UnexpectedChoice)

\* C4: whenever choose returns Err, the path and the whole tree are what they
\* were before the call.
C4_ErrLeavesStateUnchanged ==
    \A input \in Inputs :
        LET after == Chosen(input)
        IN  after.result.kind = "Err" => Unchanged(after)

\* A text leaf that holds a value and is given a text that does not parse.
C4_Witness ==
    /\ current_fields # <<>>
    /\ Unwrap(Focused).k = "text"
    /\ Unwrap(Focused).value # <<>>
    /\ Chosen(Text_(BACK_ID)).result.kind = "Err"
    /\ result.kind = "Err"

\* C5: after any sequence of choose calls the path addresses an existing node:
\* get_options, get_subfields and choose never reach a fatal condition.
C5_NoFatalCondition ==
    /\ result.kind # "panic"
    /\ ~Menu.panic
    /\ ~get_subfields(root, current_fields).panic
    /\ \A input \in Inputs : Chosen(input).result.kind # "panic"

\* A path two segments deep, reached by choose calls.
C5_Witness ==
    /\ Len(current_fields) >= 2
    /\ result = OkNone
    /\ Len(Menu.choices) >= 1

\* C6: every choice id the menu lists is accepted by choose, and when the menu
\* asks for text, a text that parses for the focused leaf's type is accepted.
C6_ListedInputsAccepted ==
    /\ \A i \in 1..Len(Menu.choices) :
           Chosen(Choice_(Menu.choices[i].choice_id)).result.kind = "Ok"
    /\ Menu.text_input =>
           /\ Unwrap(Focused).k = "text"
           /\ \A text \in Texts :
                  FromStr(Unwrap(Focused).ty, text).ok =>
                      Chosen(Text_(text)).result = OkNone

\* The variant menu of an enum with a hidden variant, below the root.
C6_Witness ==
    /\ current_fields # <<>>
    /\ Unwrap(Focused).k = "enum"
    /\ Unwrap(Focused).name = "Enum"
    /\ Len(Menu.choices) = 3
    /\ \A i \in 1..Len(Menu.choices) :
           Chosen(Choice_(Menu.choices[i].choice_id)).result.kind = "Ok"

\* C7: a Choice whose id the menu does not list returns Err(UnexpectedChoice)
\* and changes neither the tree nor the path.
C7_UnlistedChoiceRejected ==
    \A id \in ChoiceIds :
        ~HasChoice(Menu, id) =>
            LET after == Chosen(Choice_(id))
            IN  after.result = Err(UnexpectedChoice) /\ Unchanged(after)

\* C8: at a non-empty path Choice(BACK_ID) returns Ok(None), removes exactly the
\* last segment and leaves the tree as it is; as many back choices as the path
\* is long reach the root with the tree untouched.
C8_BackRemovesLastSegment ==
    current_fields # <<>> =>
        LET after == Chosen(Choice_(BACK_ID))
            home == Backs(root, current_fields, Len(current_fields))
        IN  /\ after.result = OkNone
            /\ after.current_fields = SubSeq(current_fields, 1, Len(current_fields) - 1)
            /\ after.builder = root
            /\ home.result = OkNone
            /\ home.current_fields = <<>>
            /\ home.builder = root

\* A path two segments deep, from which one back choice does not reach the root.
C8_Witness ==
    /\ Len(current_fields) >= 2
    /\ Chosen(Choice_(BACK_ID)).result = OkNone
    /\ Chosen(Choice_(BACK_ID)).current_fields # <<>>

\* C9: the menu lists the back choice exactly when the path is non-empty, and at
\* the root Choice(BACK_ID) returns Err(UnexpectedChoice) and changes nothing.
C9_BackListedIffBelowRoot ==
    /\ HasChoice(Menu, BACK_ID) <=> current_fields # <<>>
    /\ current_fields = <<>> =>
           LET after == Chosen(Choice_(BACK_ID))
           IN  after.result = Err(UnexpectedChoice) /\ Unchanged(after)

\* A rejected choice at the root of a record, where back is rejected as well.
C9_Witness ==
    /\ current_fields = <<>>
    /\ root.k = "struct"
    /\ result = Err(UnexpectedChoice)
    /\ ~HasChoice(Menu, BACK_ID)
    /\ Chosen(Choice_(BACK_ID)).result = Err(UnexpectedChoice)

\* C10: a Choice equal to a segment get_subfields names for the focused node
\* (and not taken as back or finish) is applied to the focused node, then
\* exactly that segment is appended to the path, and Ok(None) is returned.
C10_SubfieldChoiceDescends ==
    \A id \in ChoiceIds :
        LET subfields == get_subfields(root, current_fields)
            recognised == \/ id = BACK_ID /\ current_fields # <<>>
                          \/ id = FINALIZE_ID /\ current_fields = <<>> /\ is_done(root)
            named == \E i \in 1..Len(subfields.fields) : subfields.fields[i] = id
        IN  (~subfields.panic /\ named /\ ~recognised) =>
                LET after == Chosen(Choice_(id))
                    applied == apply(root, Choice_(id), current_fields)
                IN  /\ applied.res = "ok"
                    /\ after.builder = applied.node
                    /\ after.current_fields = Append(current_fields, id)
                    /\ after.result = OkNone

\* A descent into the element that the choice itself added to a sequence.
C10_Witness ==
    /\ current_fields # <<>>
    /\ current_fields[Len(current_fields)] = s_new
    /\ result = OkNone
    /\ CountItems(root) >= 1

\* Whether choose takes the input for the back or the finish choice.
Recognised(input) ==
    /\ input.kind = "Choice"
    /\ \/ input.data = BACK_ID /\ current_fields # <<>>
       \/ input.data = FINALIZE_ID /\ current_fields = <<>> /\ is_done(root)

\* Whether the input is a Choice that names a subfield of the focused node.
Descends(input) ==
    LET subfields == get_subfields(root, current_fields)
    IN  /\ input.kind = "Choice"
        /\ ~subfields.panic
        /\ \E i \in 1..Len(subfields.fields) : subfields.fields[i] = input.data

\* C11: when the input is not a descent segment (nor back or finish) and apply
\* on the focused node succeeds, choose returns Ok(None) with exactly the last
\* path segment removed; an empty path stays empty.
C11_ApplyThenAscend ==
    \A input \in Inputs :
        LET applied == apply(root, input, current_fields)
            after == Chosen(input)
        IN  (~Recognised(input) /\ ~Descends(input) /\ applied.res = "ok") =>
                /\ after.result = OkNone
                /\ after.builder = applied.node
                /\ after.current_fields =
                       IF current_fields = <<>> THEN <<>>
                       ELSE SubSeq(current_fields, 1, Len(current_fields) - 1)

\* The remove sub-menu of a sequence, from which removing element 0 leads back
\* to the sequence's own menu.
C11_Witness ==
    /\ Focused.k = "remove"
    /\ Len(Focused.of.items) >= 1
    /\ Chosen(Choice_(<<"0">>)).result = OkNone
    /\ Len(Chosen(Choice_(<<"0">>)).current_fields) = Len(current_fields) - 1
    /\ CountItems(Chosen(Choice_(<<"0">>)).builder) = CountItems(root) - 1

\* C12: on a text leaf, a Text that parses to the leaf's type is stored as exactly
\* the parsed value, whatever the leaf held; the stored value is within the
\* type's range and parses back from its own to_string.  A Text that does not
\* parse returns Err(InvalidText) and the leaf, with the rest of the tree and
\* the path, keeps what it had.
C12_TextLeafStoresParsedValue ==
    Unwrap(Focused).k = "text" =>
        \A text \in ParseTexts :
            LET leaf == Unwrap(Focused)
                parsed == FromStr(leaf.ty, text)
                after == Chosen(Text_(text))
                leaf_after == Unwrap(Focus(after.builder, current_fields))
            IN  IF parsed.ok
                THEN /\ after.result = OkNone
                     /\ leaf_after.value = <<parsed.v>>
                     /\ get_value_any(leaf_after) = <<parsed.v>>
                     /\ leaf.ty \in IntTypes =>
                            /\ IntMin(leaf.ty) <= parsed.v
                            /\ parsed.v <= IntMax(leaf.ty)
                     /\ FromStr(leaf.ty, ValueToString(leaf.ty, parsed.v)) = parsed
                ELSE /\ after.result = Err(InvalidText(parsed.error))
                     /\ leaf_after = leaf
                     /\ Unchanged(after)

\* A leaf that still holds its default after a text that did not parse.
C12_Witness ==
    /\ root.k = "struct"
    /\ root.name = "default::Foo"
    /\ current_fields = <<s_bar>>
    /\ Focused.value = <<42>>
    /\ result.kind = "Err"
    /\ result.err.kind = "InvalidText"

\* A tree built without any default: no leaf holds a value, no union has an
\* active variant, no sequence has an element and no optional is set.  Hidden
\* fields, which always hold a value, are not looked at.
NoDefault(node) ==
    CASE node.k \in {"text", "bool", "enum", "opt"} -> node.value = <<>>
      [] node.k = "vec" -> node.items = <<>>
      [] node.k \in {"box", "tuple"} -> NoDefault(node.value)
      [] node.k = "struct" ->
            \A i \in 1..Len(node.fields) :
                node.fields[i].k = "hidden" \/ NoDefault(node.fields[i])

\* A tree that needs an input before it has a value: a leaf, a union, or a box or
\* a record that holds one; a sequence and an optional need none.
Required(node) ==
    CASE node.k \in {"text", "bool", "enum"} -> TRUE
      [] node.k \in {"vec", "opt"} -> FALSE
      [] node.k \in {"box", "tuple"} -> Required(node.value)
      [] node.k = "struct" ->
            \E i \in 1..Len(node.fields) :
                node.fields[i].k # "hidden" /\ Required(node.fields[i])

\* A Builder on which choose has not been called.
Fresh == result = NotCalled /\ current_fields = <<>>

\* C13, as stated: a freshly constructed Builder with no default, whatever the
\* kind of its root, has is_done() false and finalize() failing.
C13_FreshIsIncomplete ==
    (Fresh /\ NoDefault(root)) => (~is_done(root) /\ ~finalize(root).ok)

\* C13, amended: a freshly constructed Builder with no default has is_done()
\* false and finalize() failing with MissingField when its root is a leaf, a
\* union, or a box or record holding one; when its root is a sequence, an
\* optional, or a record of only these, is_done() is true and finalize()
\* returns the empty value.
C13_FreshIsIncompleteWhenRequired ==
    (Fresh /\ NoDefault(root)) =>
        IF Required(root)
        THEN /\ ~is_done(root)
             /\ finalize(root) = [ok |-> FALSE, value |-> <<>>, error |-> "MissingField"]
        ELSE /\ is_done(root)
             /\ finalize(root).ok
             /\ root.k = "vec" => finalize(root).value = << <<>> >>
             /\ root.k = "opt" => finalize(root).value = << <<>> >>

\* A fresh Builder for a box of a union: nothing to finalize yet.
C13_Witness ==
    /\ Fresh
    /\ root.k = "box"
    /\ NoDefault(root)
    /\ ~is_done(root)
    /\ ~finalize(root).ok

\* The part of a value of type ty that the path key leads to.
ValueAt(v, key, ty) ==
    IF key = <<>> THEN v
    ELSE IF ty.k = "struct"
    THEN LET i == FieldIndex(ty.name, Head(key))
         IN  ValueAt(v.fields[i], Tail(key), StructDef(ty.name).fields[i].ty)
    ELSE ValueAt(v[UsizeFromStr(Head(key)).v + 1], Tail(key), ty.of)

\* The paths, below prefix, of the leaves of a struct and of the structs in it
\* that have a default.
DefaultedLeaves(name, prefix) ==
    LET fs == StructDef(name).fields
        shown == {i \in 1..Len(fs) : ~fs[i].hidden}
    IN  UNION { IF fs[i].ty.k = "struct"
                THEN DefaultedLeaves(fs[i].ty.name, Append(prefix, fs[i].ident))
                ELSE IF fs[i].default # <<>>
                THEN {Append(prefix, fs[i].ident)}
                ELSE {} : i \in shown }

\* The defaults of a struct as a value: the default of each leaf where there is
\* one, in the shape finalize() gives a value of the struct.
DefaultValue(name) ==
    [struct |-> name,
     fields |-> [i \in 1..Len(StructDef(name).fields) |->
                    LET f == StructDef(name).fields[i]
                    IN  IF f.ty.k = "struct" /\ ~f.hidden
                        THEN [struct |-> f.ty.name,
                              fields |-> [j \in 1..Len(StructDef(f.ty.name).fields) |->
                                             StructDef(f.ty.name).fields[j].default]]
                        ELSE f.default]]

\* C14: once a record is complete, finalize() returns a value in which every
\* leaf holds the value last supplied for it, a leaf never edited holds its
\* default, and a sequence field has one element for each element supplied, in
\* the order of insertion.
C14_RoundTrip ==
    (Tracked(root) /\ is_done(root)) =>
        LET ty == TStruct(root.name)
            v == finalize(root).value[1]
        IN  /\ \A key \in DOMAIN supplied : ValueAt(v, key, ty) = supplied[key]
            /\ \A path \in DefaultedLeaves(root.name, <<>>) :
                   path \notin DOMAIN supplied =>
                       <<ValueAt(v, path, ty)>> = ValueAt(DefaultValue(root.name), path, ty)
            /\ root.name = "StructWithoutDefault" =>
                   Len(ValueAt(v, <<s_items>>, ty)) =
                       Cardinality({key \in DOMAIN supplied : IsElement(key, <<s_items>>)})

\* A complete record with a sequence of two different elements, both supplied.
C14_Witness ==
    /\ root.k = "struct"
    /\ root.name = "StructWithoutDefault"
    /\ is_done(root)
    /\ current_fields = <<>>
    /\ DOMAIN supplied = {<<s_f_bool>>, <<s_items, <<"0">>>>, <<s_items, <<"1">>>>}
    /\ supplied[<<s_items, <<"0">>>>] # supplied[<<s_items, <<"1">>>>]
    /\ finalize(root).value[1].fields[3] =
           <<supplied[<<s_items, <<"0">>>>], supplied[<<s_items, <<"1">>>>]>>

\* The segment that leads from the parent back to the focused node: the last
\* segment of the path, with "__new" read as the index of the last element of
\* the sequence and "__set" as "__edit" of the optional.
ReEntry ==
    LET parent == Unwrap(Focus(root, SubSeq(current_fields, 1, Len(current_fields) - 1)))
        last == current_fields[Len(current_fields)]
    IN  IF parent.k = "vec" /\ last = s_new THEN NatToString(Len(parent.items) - 1)
        ELSE IF parent.k = "opt" /\ last = s_set THEN s_edit
        ELSE last

\* C15: from any node below the root, choosing back and entering the same child
\* again (a record field, a sequence index, "__edit" of an optional, the active
\* variant of a union) returns Ok(None) and shows the node as it was left: the
\* tree has not changed, and the focused node and its menu are the same.
C15_ReEnterShowsSameState ==
    current_fields # <<>> =>
        LET back == Chosen(Choice_(BACK_ID))
            again == choose(back.builder, back.current_fields, Choice_(ReEntry))
        IN  /\ back.builder = root
            /\ again.result = OkNone
            /\ again.builder = root
            /\ again.current_fields = Append(back.current_fields, ReEntry)
            /\ Focus(again.builder, again.current_fields) = Focused
            /\ Builder_get_options(again.builder, again.current_fields) = Menu

\* The active variant of a union holding an entered value, about to be selected
\* again from the variant menu.
C15_Witness ==
    /\ Len(current_fields) >= 1
    /\ LET parent == Unwrap(Focus(root, SubSeq(current_fields, 1, Len(current_fields) - 1)))
       IN  /\ parent.k = "enum"
           /\ parent.value # <<>>
           /\ parent.value[1].variant = current_fields[Len(current_fields)]
    /\ get_value_any(Focused) # <<>>
    /\ result = OkNone

\* A tree in which a required value is missing: an unset leaf, a union with no
\* active variant or with an incomplete one, a sequence with an incomplete
\* element, a set optional with an incomplete child, or a box or record that
\* holds one of these.  A hidden field always has its value.
Missing(node) ==
    CASE node.k \in {"text", "bool"} -> node.value = <<>>
      [] node.k = "hidden" -> FALSE
      [] node.k = "enum" ->
            \/ node.value = <<>>
            \/ node.value[1].inner # <<>> /\ Missing(node.value[1].inner[1])
      [] node.k = "vec" -> \E i \in 1..Len(node.items) : Missing(node.items[i])
      [] node.k = "opt" -> node.value # <<>> /\ Missing(node.value[1])
      [] node.k \in {"box", "tuple"} -> Missing(node.value)
      [] node.k = "struct" -> \E i \in 1..Len(node.fields) : Missing(node.fields[i])

\* C16: is_done() is true exactly when finalize() returns Ok, and finalize()
\* returns Err(MissingField) exactly when a required value is missing somewhere
\* in the tree.
C16_DoneIffFinalizeOk ==
    /\ is_done(root) <=> finalize(root).ok
    /\ finalize(root).ok <=> ~Missing(root)
    /\ ~finalize(root).ok <=>
           finalize(root) = [ok |-> FALSE, value |-> <<>>, error |-> "MissingField"]

\* A sequence whose first element is complete and whose second is a set optional
\* still waiting for its value.
C16_Witness ==
    /\ root.k = "vec"
    /\ Len(root.items) = 2
    /\ ~Missing(root.items[1])
    /\ Missing(root.items[2])
    /\ ~is_done(root)
    /\ finalize(root).error = "MissingField"

\* C17: get_options(), is_done(), finalize() and to_node() leave the path and the
\* tree as they are, so that after any of them every call of choose and every
\* read-only call returns what it would have returned before.
C17_ReadOnlyCallsChangeNothing ==
    \A op \in ReadOps :
        LET after == read(root, current_fields, op)
        IN  /\ after.builder = root
            /\ after.current_fields = current_fields
            /\ \A input \in Inputs :
                   choose(after.builder, after.current_fields, input) = Chosen(input)
            /\ \A later \in ReadOps :
                   read(after.builder, after.current_fields, later).value =
                       read(root, current_fields, later).value

\* A to_node() call made below the root, after choose calls had built something.
C17_Witness ==
    /\ observed.op = "to_node"
    /\ observed.value = to_node(root)
    /\ current_fields # <<>>
    /\ result = OkNone
    /\ ~NoDefault(root)

\* A type whose builder needs no input: every leaf of it has a default, every
\* union a default variant that needs no input; a sequence and an optional need
\* none whatever they hold.
RECURSIVE HasDefaults(_)
HasDefaults(ty) ==
    CASE ty.k \in {"text", "bool"} -> FALSE
      [] ty.k \in {"Vec", "Option"} -> TRUE
      [] ty.k = "Box" -> HasDefaults(ty.of)
      [] ty.k = "struct" ->
            \A i \in 1..Len(StructDef(ty.name).fields) :
                LET f == StructDef(ty.name).fields[i]
                IN  \/ f.hidden
                    \/ builtin_type(f.ty) /\ f.default # <<>>
                    \/ ~builtin_type(f.ty) /\ HasDefaults(f.ty)
      [] ty.k = "enum" ->
            \E i \in 1..Len(EnumDef(ty.name).variants) :
                LET var == EnumDef(ty.name).variants[i]
                IN  /\ var.default
                    /\ var.kind = "Empty" \/ HasDefaults(TStruct(var.builder))

\* C18: a Builder whose every required value has a default is complete as soon
\* as it is constructed: is_done() is true, finalize() returns the defaults (42
\* for the record, also when nested; the default variant for the union) and the
\* first get_options() offers the finish choice.
C18_DefaultsCompleteAtOnce ==
    \A ty \in RootTypes :
        (Fresh /\ root = new_buildable_value(ty) /\ HasDefaults(ty)) =>
            /\ is_done(root)
            /\ finalize(root).ok
            /\ ~Menu.panic
            /\ HasChoice(Menu, FINALIZE_ID)
            /\ ty = TStruct("default::Foo") =>
                   finalize(root).value = <<[struct |-> "default::Foo", fields |-> <<42>>]>>
            /\ ty = TStruct("NestedFoo") =>
                   finalize(root).value =
                       <<[struct |-> "NestedFoo",
                          fields |-> <<[struct |-> "default::Foo", fields |-> <<42>>]>>]>>
            /\ ty = TEnum("Defaulted") =>
                   finalize(root).value =
                       <<[enum |-> "Defaulted", variant |-> s_Var1, fields |-> <<>>]>>

\* A fresh Builder for the union with a default variant, already complete.
C18_Witness ==
    /\ Fresh
    /\ root = new_buildable_value(TEnum("Defaulted"))
    /\ HasDefaults(TEnum("Defaulted"))
    /\ root.value # <<>>
    /\ is_done(root)
    /\ HasChoice(Menu, FINALIZE_ID)

\* C19: for every hidden field of the record at the root, in every state: the
\* record's menu has no choice with the field's name and to_node() no field with
\* it; at the record's menu, Choice(name) returns Err(UnexpectedChoice) and
\* changes nothing; and whenever finalize() returns a value, the field holds its
\* default in it.
C19_HiddenFieldKeptOutOfSight ==
    root.k = "struct" =>
        \A i \in 1..Len(StructDef(root.name).fields) :
            LET f == StructDef(root.name).fields[i]
                node == to_node(root)
                after == Chosen(Choice_(f.ident))
            IN  f.hidden =>
                    /\ node.n = "Composite"
                    /\ \A j \in 1..Len(node.fields) : node.fields[j].named # <<f.ident>>
                    /\ current_fields = <<>> =>
                           /\ ~Menu.panic
                           /\ ~HasChoice(Menu, f.ident)
                           /\ after.result = Err(UnexpectedChoice)
                           /\ Unchanged(after)
                    /\ is_done(root) <=> finalize(root).ok
                    /\ finalize(root).ok =>
                           <<finalize(root).value[1].fields[i]>> = f.default

\* A record with a hidden field, its other fields filled in and the path back at
\* the record: the hidden name is refused and finalize() has the default.
C19_Witness ==
    /\ root.k = "struct"
    /\ root.name = "StructWithoutDefault"
    /\ current_fields = <<>>
    /\ result = OkNone
    /\ Len(root.fields[3].items) = 2
    /\ Chosen(Choice_(s_field)).result = Err(UnexpectedChoice)
    /\ finalize(root).ok
    /\ finalize(root).value[1].fields[1] = [struct |-> "Defaultable", fields |-> <<s_success>>]

\* C20: whenever the path is at the menu of a union, whatever variant is active,
\* the menu has no choice for a hidden variant of the union, and Choice of its
\* identifier returns Err(UnexpectedChoice) and leaves the tree, the active
\* variant with it, and the path as they are.
C20_HiddenVariantRefused ==
    Unwrap(Focused).k = "enum" =>
        \A i \in 1..Len(EnumDef(Unwrap(Focused).name).variants) :
            LET var == EnumDef(Unwrap(Focused).name).variants[i]
                after == Chosen(Choice_(var.ident))
            IN  var.hidden =>
                    /\ ~Menu.panic
                    /\ ~HasChoice(Menu, var.ident)
                    /\ after.result = Err(UnexpectedChoice)
                    /\ Unchanged(after)
                    /\ Unwrap(Focus(after.builder, after.current_fields)).value =
                           Unwrap(Focused).value

\* The menu of a union below a record, with a variant active and a value in it:
\* the hidden variant is refused.
C20_Witness ==
    /\ root.k = "struct"
    /\ root.name = "Struct"
    /\ current_fields = <<s_enm>>
    /\ Focused.k = "enum"
    /\ Focused.value # <<>>
    /\ Focused.value[1].variant = s_Var3
    /\ is_done(root)
    /\ Chosen(Choice_(s_Var1)).result = Err(UnexpectedChoice)
    /\ result = Err(UnexpectedChoice)

\* C21, as stated: a Text input at a node whose menu has text_input false
\* returns Err(UnexpectedText), a Choice other than back at a text leaf returns
\* Err(UnexpectedChoice), and both leave the tree and the path as they are.
C21_WrongInputKindRejected ==
    /\ (~Menu.panic /\ ~Menu.text_input) =>
           \A text \in Texts :
               LET after == Chosen(Text_(text))
               IN  after.result = Err(UnexpectedText) /\ Unchanged(after)
    /\ Unwrap(Focused).k = "text" =>
           \A id \in ChoiceIds \ {BACK_ID} :
               LET after == Chosen(Choice_(id))
               IN  after.result = Err(UnexpectedChoice) /\ Unchanged(after)

\* C21, amended: as stated, except that at a text leaf that is the root and
\* holds a value the finish choice is accepted and returns the value; every
\* other Choice at a text leaf, back at the root included, returns
\* Err(UnexpectedChoice) and changes nothing.
C21_WrongInputKindRejectedButFinish ==
    /\ (~Menu.panic /\ ~Menu.text_input) =>
           \A text \in Texts :
               LET after == Chosen(Text_(text))
               IN  after.result = Err(UnexpectedText) /\ Unchanged(after)
    /\ Unwrap(Focused).k = "text" =>
           \A id \in ChoiceIds :
               LET after == Chosen(Choice_(id))
               IN  IF id = BACK_ID /\ current_fields # <<>>
                   THEN after.result = OkNone
                   ELSE IF id = FINALIZE_ID /\ current_fields = <<>> /\ is_done(root)
                   THEN after.result = OkSome(Unwrap(Focused).value[1]) /\ Unchanged(after)
                   ELSE after.result = Err(UnexpectedChoice) /\ Unchanged(after)

\* The remove sub-menu of a sequence with an element, just given a text.
C21_Witness ==
    /\ current_fields # <<>>
    /\ Focused.k = "remove"
    /\ Focused.of.items # <<>>
    /\ ~Menu.text_input
    /\ result = Err(UnexpectedText)
    /\ Chosen(Text_(<<"1">>)).result = Err(UnexpectedText)

\* C22: at the main menu of a sequence, Choice("__new") returns Ok(None), puts
\* one fresh element after the elements there are, which stay as they are, and
\* adds the segment "__new" to the path; and while the path has a "__new"
\* segment of a sequence, no input changes the number of elements of that
\* sequence or any element but the last.
C22_NewAppendsAndAddressesLast ==
    /\ Unwrap(Focused).k = "vec" =>
           LET after == Chosen(Choice_(s_new))
               items == Unwrap(Focus(after.builder, current_fields)).items
           IN  /\ after.result = OkNone
               /\ after.current_fields = Append(current_fields, s_new)
               /\ items = Append(Unwrap(Focused).items,
                                 new_buildable_value(Unwrap(Focused).of))
               /\ NoDefault(items[Len(items)])
    /\ \A n \in 1..Len(current_fields) :
           LET prefix == SubSeq(current_fields, 1, n - 1)
               seq == Unwrap(Focus(root, prefix))
           IN  (current_fields[n] = s_new /\ seq.k = "vec") =>
                   \A input \in Inputs :
                       LET items == Unwrap(Focus(Chosen(input).builder, prefix)).items
                       IN  /\ Len(items) = Len(seq.items)
                           /\ \A i \in 1..(Len(items) - 1) : items[i] = seq.items[i]

\* A sequence of two optionals, the path at the one added last: the value typed
\* for it went to it, the value of the first one is as it was.
C22_Witness ==
    /\ root.k = "vec"
    /\ Len(root.items) = 2
    /\ current_fields = <<s_new>>
    /\ result = OkNone
    /\ root.items[1].value # <<>>
    /\ root.items[1].value[1].value = <<7>>
    /\ root.items[2].value # <<>>
    /\ root.items[2].value[1].value = <<1>>

\* C23: at the remove sub-menu of a sequence of n elements, Choice of the index
\* i < n returns Ok(None), leaves the n - 1 other elements in their order, those
\* after i one place down, and puts the path back at the main menu of the
\* sequence; when n = 1 the sequence is left empty and its own menu has the
\* single choice "__new".
C23_RemoveTakesOutTheChosenElement ==
    Focused.k = "remove" =>
        \A i \in 0..(Len(Focused.of.items) - 1) :
            LET before == Focused.of.items
                after == Chosen(Choice_(NatToString(i)))
                seq == Unwrap(Focus(after.builder, after.current_fields))
            IN  /\ after.result = OkNone
                /\ after.current_fields = Pop(current_fields)
                /\ seq.k = "vec"
                /\ Len(seq.items) = Len(before) - 1
                /\ \A j \in 1..Len(seq.items) :
                       seq.items[j] = IF j <= i THEN before[j] ELSE before[j + 1]
                /\ Len(before) = 1 =>
                       /\ seq.items = <<>>
                       /\ get_options(seq, <<>>).choices =
                              <<Choice(s_new, "New element", FALSE)>>

\* The remove sub-menu of a sequence of two different elements: taking out the
\* first leaves the second.
C23_Witness ==
    /\ root.k = "vec"
    /\ current_fields = <<s_remove>>
    /\ result = OkNone
    /\ Len(root.items) = 2
    /\ root.items[1] # root.items[2]
    /\ Chosen(Choice_(<<"0">>)).builder.items = <<root.items[2]>>
    /\ Chosen(Choice_(<<"0">>)).current_fields = <<>>

\* C24: in every state, the menu at a sequence of n elements has "__new", has
\* "__remove" exactly when n > 0, has for each index below n exactly one choice,
\* whose needs_action is true exactly when that element misses a required value,
\* and has nothing else but the back or the finish choice; the menu at its
\* remove sub-menu has exactly one choice for each index below n and the back
\* choice.
C24_SequenceMenus ==
    LET Count(id) == Cardinality({c \in 1..Len(Menu.choices) : Menu.choices[c].choice_id = id})
    IN  /\ Unwrap(Focused).k = "vec" =>
               LET items == Unwrap(Focused).items
                   Indices == {NatToString(i - 1) : i \in 1..Len(items)}
               IN  /\ ~Menu.panic
                   /\ Count(s_new) = 1
                   /\ Count(s_remove) = IF Len(items) > 0 THEN 1 ELSE 0
                   /\ \A i \in 1..Len(items) :
                          /\ Count(NatToString(i - 1)) = 1
                          /\ \A c \in 1..Len(Menu.choices) :
                                 Menu.choices[c].choice_id = NatToString(i - 1) =>
                                     (Menu.choices[c].needs_action <=> Missing(items[i]))
                   /\ \A c \in 1..Len(Menu.choices) :
                          Menu.choices[c].choice_id \in
                              {s_new, s_remove, BACK_ID, FINALIZE_ID} \cup Indices
        /\ Focused.k = "remove" =>
               LET items == Focused.of.items
                   Indices == {NatToString(i - 1) : i \in 1..Len(items)}
               IN  /\ ~Menu.panic
                   /\ \A id \in Indices : Count(id) = 1
                   /\ \A c \in 1..Len(Menu.choices) :
                          Menu.choices[c].choice_id \in {BACK_ID} \cup Indices

\* The menu of a sequence whose first element is complete and whose second is not.
C24_Witness ==
    /\ root.k = "vec"
    /\ current_fields = <<>>
    /\ Len(root.items) = 2
    /\ ~Missing(root.items[1])
    /\ Missing(root.items[2])
    /\ Len(Menu.choices) = 4
    /\ ~Menu.choices[3].needs_action
    /\ Menu.choices[4].choice_id = <<"1">>
    /\ Menu.choices[4].needs_action

\* C25: at the main menu of a sequence with no element, Choice("__remove")
\* returns Err(UnexpectedChoice) and leaves the path, and the tree, as they are.
C25_RemoveRejectedWhenEmpty ==
    (Unwrap(Focused).k = "vec" /\ Unwrap(Focused).items = <<>>) =>
        LET after == Chosen(Choice_(s_remove))
        IN  after.result = Err(UnexpectedChoice) /\ Unchanged(after)

\* C26: at the main menu and at the remove sub-menu of a sequence, a Choice whose
\* id is meant as an index but is not one of the index identifiers on the menu
\* (a number out of range, a string that is no number, another spelling of a
\* number such as "00" or "+0") returns Err(UnexpectedChoice) and leaves the
\* elements and the path as they are.
C26_OnlyOfferedIndicesAccepted ==
    (Unwrap(Focused).k = "vec" \/ Focused.k = "remove") =>
        \A id \in ChoiceIds \ {s_new, s_remove, BACK_ID, FINALIZE_ID} :
            ~HasChoice(Menu, id) =>
                LET after == Chosen(Choice_(id))
                IN  after.result = Err(UnexpectedChoice) /\ Unchanged(after)

\* The nodes of the trees in the list nodes, each followed by the nodes it holds:
\* the elements of a sequence, the child of a box, of a one-field struct or of a
\* set optional, the shown fields of a record, the fields of the active variant
\* of a union.
RECURSIVE Subtrees(_)
Subtrees(nodes) ==
    IF nodes = <<>> THEN <<>>
    ELSE LET node == Head(nodes)
             held == CASE node.k \in {"text", "bool"} -> <<>>
                       [] node.k = "vec" -> node.items
                       [] node.k \in {"box", "tuple"} -> <<node.value>>
                       [] node.k = "opt" -> node.value
                       [] node.k = "struct" ->
                             SelectSeq(node.fields, LAMBDA f : f.k # "hidden")
                       [] node.k = "enum" ->
                             IF node.value = <<>> THEN <<>> ELSE node.value[1].inner
         IN  <<node>> \o Subtrees(held \o Tail(nodes))

\* C27: for every sequence in the tree: it has a value exactly when none of its
\* elements misses a required value, the empty sequence has the empty list, and
\* the value lists the values of the elements in their order; and every node
\* that holds, at any depth, a sequence with an incomplete element has no value.
C27_SequenceCompleteness ==
    \A n \in 1..Len(Subtrees(<<root>>)) :
        LET node == Subtrees(<<root>>)[n]
            below == Subtrees(<<node>>)
        IN  /\ node.k = "vec" =>
                   /\ get_value_any(node) # <<>> <=>
                          \A e \in 1..Len(node.items) : ~Missing(node.items[e])
                   /\ node.items = <<>> => get_value_any(node) = << <<>> >>
                   /\ get_value_any(node) # <<>> =>
                          get_value_any(node)[1] =
                              [e \in 1..Len(node.items) |-> get_value_any(node.items[e])[1]]
            /\ (\E m \in 1..Len(below) :
                    /\ below[m].k = "vec"
                    /\ \E e \in 1..Len(below[m].items) : Missing(below[m].items[e])) =>
                   get_value_any(node) = <<>>

\* A sequence below a union, a box and an optional, its first element typed and
\* its second one not: none of them has a value.
C27_Witness ==
    /\ root.k = "opt"
    /\ root.value # <<>>
    /\ Unwrap(root.value[1]).k = "enum"
    /\ Unwrap(root.value[1]).value # <<>>
    /\ Len(Subtrees(<<root>>)) = 7
    /\ Subtrees(<<root>>)[5].k = "vec"
    /\ Subtrees(<<root>>)[6].value = <<7>>
    /\ Subtrees(<<root>>)[7].value = <<>>
    /\ get_value_any(Subtrees(<<root>>)[5]) = <<>>
    /\ ~is_done(root)

\* C28: in every state, the menu at an optional has, besides the back or the
\* finish choice, exactly "__set" when the optional is unset and exactly
\* "__remove" and "__edit" when it is set.  Choice("__set") on an unset optional
\* gives it a fresh child and adds "__set" to the path; Choice("__edit") on a set
\* one adds "__edit" to the path and changes nothing in the tree;
\* Choice("__remove") on a set one leaves it unset and takes the last segment off
\* the path.  Each returns Ok(None).
C28_OptionalMenuAndChoices ==
    Unwrap(Focused).k = "opt" =>
        LET opt == Unwrap(Focused)
            own == {Menu.choices[c].choice_id : c \in 1..Len(Menu.choices)}
                       \ {BACK_ID, FINALIZE_ID}
            set == Chosen(Choice_(s_set))
            edit == Chosen(Choice_(s_edit))
            remove == Chosen(Choice_(s_remove))
        IN  /\ ~Menu.panic
            /\ opt.value = <<>> =>
                   /\ own = {s_set}
                   /\ set.result = OkNone
                   /\ set.current_fields = Append(current_fields, s_set)
                   /\ Unwrap(Focus(set.builder, current_fields)).value =
                          <<new_buildable_value(opt.of)>>
                   /\ NoDefault(Focus(set.builder, set.current_fields))
            /\ opt.value # <<>> =>
                   /\ own = {s_remove, s_edit}
                   /\ edit.result = OkNone
                   /\ edit.current_fields = Append(current_fields, s_edit)
                   /\ edit.builder = root
                   /\ remove.result = OkNone
                   /\ remove.current_fields = Pop(current_fields)
                   /\ Unwrap(Focus(remove.builder, current_fields)).value = <<>>
                   /\ current_fields = <<>> => remove.builder = [root EXCEPT !.value = <<>>]

\* The menu of an optional field that holds a typed value.
C28_Witness ==
    /\ root.k = "struct"
    /\ root.name = "Foo"
    /\ current_fields = <<s_bar>>
    /\ result = OkNone
    /\ Focused.k = "opt"
    /\ Focused.value # <<>>
    /\ Focused.value[1].value = <<7>>
    /\ HasChoice(Menu, s_edit)
    /\ Chosen(Choice_(s_remove)).current_fields = <<>>

\* C29: at an optional that is set, Choice("__set") returns Err(UnexpectedChoice)
\* and keeps the child with all it holds; at one that is unset, Choice("__remove")
\* and Choice("__edit") return Err(UnexpectedChoice); the path, and the tree, are
\* left as they are.
C29_OptionalRejectsOutOfStateChoices ==
    Unwrap(Focused).k = "opt" =>
        \A id \in {s_set, s_remove, s_edit} :
            ((id = s_set) <=> (Unwrap(Focused).value # <<>>)) =>
                LET after == Chosen(Choice_(id))
                IN  after.result = Err(UnexpectedChoice) /\ Unchanged(after)

\* C30: for every optional in the tree: unset, it has the value None and to_node
\* shows the leaf "None"; set, it has a value exactly when its child misses no
\* required value, that value is Some of the child's value, and to_node shows
\* the node of the child.
C30_OptionalCompleteness ==
    \A n \in 1..Len(Subtrees(<<root>>)) :
        LET node == Subtrees(<<root>>)[n]
        IN  node.k = "opt" =>
                IF node.value = <<>>
                THEN /\ get_value_any(node) = << <<>> >>
                     /\ to_node(node) = [n |-> "Leaf", field |-> << <<"N", "o", "n", "e">> >>]
                ELSE /\ get_value_any(node) # <<>> <=> ~Missing(node.value[1])
                     /\ get_value_any(node) # <<>> =>
                            get_value_any(node)[1] = <<get_value_any(node.value[1])[1]>>
                     /\ to_node(node) = to_node(node.value[1])
                     /\ to_node(node) # [n |-> "Leaf", field |-> << <<"N", "o", "n", "e">> >>]

\* A record with one optional set and waiting for its value and the other unset.
C30_Witness ==
    /\ root.k = "struct"
    /\ root.name = "Foo"
    /\ root.fields[1].value # <<>>
    /\ Missing(root.fields[1].value[1])
    /\ get_value_any(root.fields[1]) = <<>>
    /\ root.fields[2].value = <<>>
    /\ get_value_any(root.fields[2]) = << <<>> >>
    /\ ~is_done(root)

\* C31: at the menu of a union, Choice of the variant that is active leaves the
\* tree, the payload of the variant with it, as it is; Choice of another variant
\* makes that one active with a fresh payload and nothing left of the old one, so
\* that choosing the earlier variant again at the same menu, when it is one that
\* can be chosen, gives it a fresh payload too.
C31_VariantSelection ==
    Unwrap(Focused).k = "enum" =>
        LET enm == Unwrap(Focused)
            vs == EnumDef(enm.name).variants
            FreshPayload(value, var) ==
                /\ value = <<variant_builder_new(var)>>
                /\ value[1].variant = var.ident
                /\ (var.kind = "Empty") <=> (value[1].inner = <<>>)
                /\ value[1].inner # <<>> => NoDefault(value[1].inner[1])
        IN  \A i \in 1..Len(vs) :
                LET after == Chosen(Choice_(vs[i].ident))
                    chosen == Unwrap(Focus(after.builder, current_fields))
                IN  ~vs[i].hidden =>
                        /\ after.result = OkNone
                        /\ IF enm.value # <<>> /\ enm.value[1].variant = vs[i].ident
                           THEN after.builder = root
                           ELSE /\ FreshPayload(chosen.value, vs[i])
                                /\ \A j \in 1..Len(vs) :
                                       (/\ enm.value # <<>>
                                        /\ enm.value[1].variant = vs[j].ident
                                        /\ ~vs[j].hidden) =>
                                           FreshPayload(
                                               Unwrap(Focus(choose(after.builder, current_fields,
                                                                   Choice_(vs[j].ident)).builder,
                                                            current_fields)).value,
                                               vs[j])

\* The menu of a union field whose active variant holds a typed value: choosing
\* it again keeps the value, choosing the other one drops it.
C31_Witness ==
    /\ root.k = "struct"
    /\ root.name = "Struct"
    /\ current_fields = <<s_enm>>
    /\ result = OkNone
    /\ Focused.value # <<>>
    /\ Focused.value[1].variant = s_Var2
    /\ Focused.value[1].inner[1].fields[1].value = <<7>>
    /\ Chosen(Choice_(s_Var2)).builder = root
    /\ Chosen(Choice_(s_Var3)).builder.fields[2].value[1].variant = s_Var3

\* C32: at the menu of a union, Choice of a variant without fields returns
\* Ok(None), takes the last segment off the path (the empty path stays empty) and
\* leaves the union with a value; Choice of a variant with fields returns
\* Ok(None) and adds the variant to the path; and in every state a union whose
\* active variant has fields has a value exactly when no required value of the
\* fields is missing.
C32_EmptyVariantCompletesAtOnce ==
    /\ Unwrap(Focused).k = "enum" =>
           LET vs == EnumDef(Unwrap(Focused).name).variants
           IN  \A i \in 1..Len(vs) :
                   LET after == Chosen(Choice_(vs[i].ident))
                       chosen == Unwrap(Focus(after.builder, current_fields))
                   IN  ~vs[i].hidden =>
                           /\ after.result = OkNone
                           /\ chosen.value # <<>>
                           /\ chosen.value[1].variant = vs[i].ident
                           /\ IF vs[i].kind = "Empty"
                              THEN /\ after.current_fields = Pop(current_fields)
                                   /\ get_value_any(chosen) =
                                          <<[enum |-> chosen.name, variant |-> vs[i].ident,
                                             fields |-> <<>>]>>
                              ELSE /\ after.current_fields =
                                          Append(current_fields, vs[i].ident)
                                   /\ get_value_any(chosen) # <<>> <=>
                                          ~Missing(chosen.value[1].inner[1])
    /\ \A n \in 1..Len(Subtrees(<<root>>)) :
           LET node == Subtrees(<<root>>)[n]
           IN  (node.k = "enum" /\ node.value # <<>>) =>
                   IF node.value[1].inner = <<>> THEN get_value_any(node) # <<>>
                   ELSE get_value_any(node) # <<>> <=> ~Missing(node.value[1].inner[1])

\* A union at the root just after the choice of a variant without fields that is
\* not its default: complete, the path still empty, while a variant with fields
\* of another union would be descended into.
C32_Witness ==
    /\ root.k = "enum"
    /\ root.name = "Defaulted"
    /\ current_fields = <<>>
    /\ result = OkNone
    /\ root.value # <<>>
    /\ root.value[1].variant = s_Var2
    /\ root.value[1].inner = <<>>
    /\ is_done(root)
    /\ Chosen(Choice_(s_Var1)).current_fields = <<>>

\* C33: in every state, the menu at a record has, besides the back or the finish
\* choice, exactly one choice for each field that is not hidden and none for a
\* hidden one, and the needs_action of a field's choice is true exactly when the
\* field misses a required value; at the menu of a root record without hidden
\* fields, is_done() is true exactly when no choice has needs_action.
C33_RecordMenu ==
    Unwrap(Focused).k = "struct" =>
        LET rec == Unwrap(Focused)
            fs == StructDef(rec.name).fields
            shown == {i \in 1..Len(fs) : ~fs[i].hidden}
            Of(id) == {c \in 1..Len(Menu.choices) : Menu.choices[c].choice_id = id}
        IN  /\ ~Menu.panic
            /\ \A i \in shown :
                   /\ Cardinality(Of(fs[i].ident)) = 1
                   /\ \A c \in Of(fs[i].ident) :
                          /\ Menu.choices[c].needs_action <=> Missing(rec.fields[i])
                          /\ Menu.choices[c].text = "Edit " \o Join(fs[i].ident)
            /\ \A c \in 1..Len(Menu.choices) :
                   Menu.choices[c].choice_id \in
                       {fs[i].ident : i \in shown} \cup {BACK_ID, FINALIZE_ID}
            /\ Len(Menu.choices) =
                   Cardinality(shown) +
                       (IF current_fields # <<>> \/ is_done(root) THEN 1 ELSE 0)
            /\ (root.k = "struct" /\ current_fields = <<>> /\ shown = 1..Len(fs)) =>
                   (is_done(root) <=>
                        \A c \in 1..Len(Menu.choices) : ~Menu.choices[c].needs_action)

\* The menu of a root record with its first field typed and a nested record
\* still incomplete.
C33_Witness ==
    /\ root.k = "struct"
    /\ root.name = "Base"
    /\ current_fields = <<>>
    /\ result = OkNone
    /\ root.fields[1].value = <<7>>
    /\ Missing(root.fields[3])
    /\ ~is_done(root)
    /\ Len(Menu.choices) = 3
    /\ ~Menu.choices[1].needs_action
    /\ Menu.choices[3].needs_action

\* C34: in every state, no two choices of the menu get_options() returns have the
\* same identifier, the back or finish choice and the "__new", "__remove" and
\* index choices of a sequence included.
C34_ChoiceIdsDistinct ==
    /\ ~Menu.panic
    /\ \A c, d \in 1..Len(Menu.choices) :
           c # d => Menu.choices[c].choice_id # Menu.choices[d].choice_id

\* The menu of a sequence field of two elements: "__new", "__remove", "0", "1"
\* and the back choice.
C34_Witness ==
    /\ root.k = "struct"
    /\ current_fields = <<s_items>>
    /\ Len(Focused.items) = 2
    /\ Len(Menu.choices) = 5
    /\ HasChoice(Menu, s_new)
    /\ HasChoice(Menu, s_remove)
    /\ HasChoice(Menu, <<"1">>)
    /\ HasChoice(Menu, BACK_ID)

\* The type with T in the place of every Box<T>.
RECURSIVE UnboxType(_)
UnboxType(ty) ==
    CASE ty.k = "Box" -> UnboxType(ty.of)
      [] ty.k \in {"Vec", "Option"} -> [ty EXCEPT !.of = UnboxType(@)]
      [] OTHER -> ty

\* The tree of the builder over T for a tree of a builder over a type that has
\* Box<T> somewhere: every box replaced by what it holds.
RECURSIVE Unbox(_)
Unbox(node) ==
    CASE node.k \in {"text", "bool", "hidden"} -> node
      [] node.k = "box" -> Unbox(node.value)
      [] node.k = "tuple" -> [node EXCEPT !.value = Unbox(@)]
      [] node.k = "vec" ->
            [node EXCEPT !.of = UnboxType(@),
                         !.items = [i \in 1..Len(node.items) |-> Unbox(node.items[i])]]
      [] node.k = "opt" ->
            [node EXCEPT !.of = UnboxType(@),
                         !.value = [i \in 1..Len(node.value) |-> Unbox(node.value[i])]]
      [] node.k = "struct" ->
            [node EXCEPT !.fields = [i \in 1..Len(node.fields) |-> Unbox(node.fields[i])]]
      [] node.k = "enum" ->
            IF node.value = <<>> \/ node.value[1].inner = <<>> THEN node
            ELSE [node EXCEPT !.value[1].inner = <<Unbox(node.value[1].inner[1])>>]

\* C35: in every state, the builder and the builder with every box taken out of
\* its tree show the same menu and the same to_node(), are complete together,
\* and answer every input alike: the same Ok or Err, the same path, and trees
\* that again differ by the boxes only; a box has a value exactly when what it
\* holds has one, and its value is that value in a box.
C35_BoxIsTransparent ==
    /\ Builder_get_options(root, current_fields) =
           Builder_get_options(Unbox(root), current_fields)
    /\ to_node(root) = to_node(Unbox(root))
    /\ is_done(root) <=> is_done(Unbox(root))
    /\ \A input \in Inputs :
           LET boxed == Chosen(input)
               plain == choose(Unbox(root), current_fields, input)
           IN  /\ boxed.current_fields = plain.current_fields
               /\ boxed.result.kind = plain.result.kind
               /\ boxed.result.err = plain.result.err
               /\ boxed.result.value = <<>> <=> plain.result.value = <<>>
               /\ Unbox(boxed.builder) = plain.builder
    /\ \A n \in 1..Len(Subtrees(<<root>>)) :
           LET node == Subtrees(<<root>>)[n]
           IN  node.k = "box" =>
                   /\ get_value_any(node) = <<>> <=> get_value_any(node.value) = <<>>
                   /\ get_value_any(node) # <<>> =>
                          get_value_any(node) = <<[box |-> get_value_any(node.value)[1]]>>
    /\ (root.k = "box" /\ current_fields = <<>> /\ is_done(root)) =>
           Chosen(Choice_(FINALIZE_ID)).result =
               OkSome([box |-> choose(Unbox(root), <<>>, Choice_(FINALIZE_ID)).result.value[1]])

\* A box of a union, the path inside the active variant and its field typed.
C35_Witness ==
    /\ root.k = "box"
    /\ root.value.value # <<>>
    /\ root.value.value[1].variant = s_Var2
    /\ current_fields = <<s_Var2>>
    /\ result = OkNone
    /\ root.value.value[1].inner[1].fields[1].value = <<7>>
    /\ is_done(root)
    /\ Unbox(root) = root.value

\* C36: whenever a segment of the path is a field of a record, no input, accepted
\* or rejected, changes any other field of that record, hidden ones included.
C36_SiblingFieldsUntouched ==
    \A n \in 1..Len(current_fields) :
        LET prefix == SubSeq(current_fields, 1, n - 1)
            rec == Unwrap(Focus(root, prefix))
        IN  rec.k = "struct" =>
                \A input \in Inputs :
                    LET after == Chosen(input)
                        later == Unwrap(Focus(after.builder, prefix))
                    IN  /\ after.result.kind \in {"Ok", "Err"}
                        /\ later.k = "struct"
                        /\ later.name = rec.name
                        /\ \A j \in 1..Len(rec.fields) :
                               j # FieldIndex(rec.name, current_fields[n]) =>
                                   later.fields[j] = rec.fields[j]

\* The path inside the nested record of a record whose first field is typed and
\* whose nested record has a typed field: the next input can change only the
\* nested record.
C36_Witness ==
    /\ root.k = "struct"
    /\ root.name = "Base"
    /\ current_fields = <<s_inner>>
    /\ result = OkNone
    /\ root.fields[1].value = <<7>>
    /\ root.fields[3].fields[1].value # <<>>
    /\ Chosen(Choice_(s_string)).current_fields = <<s_inner, s_string>>
    /\ Chosen(Choice_(s_string)).builder.fields[1] = root.fields[1]

\* C37: at a sequence of required leaves, "__new" followed by back leaves one
\* more element, an empty one, at the end of the sequence; the sequence and the
\* root are then incomplete and finish is offered neither there nor at the
\* root, the index of the element is listed with needs_action true, filling the
\* element or removing it gives back the completeness there was before, and in
\* no state is the root complete, or finish offered, while a sequence holds an
\* empty leaf.
C37_NewThenBackLeavesEmptyElement ==
    /\ (Unwrap(Focused).k = "vec" /\ Unwrap(Focused).of.k = "text") =>
           LET before == Unwrap(Focused)
               index == NatToString(Len(before.items))
               added == Chosen(Choice_(s_new))
               back == choose(added.builder, added.current_fields, Choice_(BACK_ID))
               seq == Unwrap(Focus(back.builder, back.current_fields))
               menu == Builder_get_options(back.builder, back.current_fields)
               entered == choose(back.builder, back.current_fields, Choice_(index))
               filled == choose(entered.builder, entered.current_fields, Text_(<<"7">>))
               removing == choose(back.builder, back.current_fields, Choice_(s_remove))
               removed == choose(removing.builder, removing.current_fields, Choice_(index))
           IN  /\ added.result = OkNone
               /\ back.result = OkNone
               /\ back.current_fields = current_fields
               /\ seq.k = "vec"
               /\ Len(seq.items) = Len(before.items) + 1
               /\ \A i \in 1..Len(before.items) : seq.items[i] = before.items[i]
               /\ seq.items[Len(seq.items)].k = "text"
               /\ seq.items[Len(seq.items)].value = <<>>
               /\ ~is_done(seq)
               /\ ~is_done(back.builder)
               /\ ~HasChoice(menu, FINALIZE_ID)
               /\ ~HasChoice(Builder_get_options(back.builder, <<>>), FINALIZE_ID)
               /\ \E c \in 1..Len(menu.choices) :
                      /\ menu.choices[c].choice_id = index
                      /\ menu.choices[c].needs_action
               /\ filled.result = OkNone
               /\ filled.current_fields = current_fields
               /\ is_done(Unwrap(Focus(filled.builder, current_fields))) <=> is_done(before)
               /\ is_done(filled.builder) <=> is_done(root)
               /\ removed.result = OkNone
               /\ removed.current_fields = current_fields
               /\ removed.builder = root
    /\ (\E n \in 1..Len(Subtrees(<<root>>)) :
            LET node == Subtrees(<<root>>)[n]
            IN  /\ node.k = "vec"
                /\ node.of.k = "text"
                /\ \E e \in 1..Len(node.items) : node.items[e].value = <<>>) =>
           /\ ~is_done(root)
           /\ ~HasChoice(Builder_get_options(root, <<>>), FINALIZE_ID)
           /\ ~HasChoice(Menu, FINALIZE_ID)

\* Back at a sequence whose only element was added and left empty, with the
\* root incomplete for that alone: removing the element makes the root complete.
C37_Witness ==
    /\ Unwrap(Focused).k = "vec"
    /\ Unwrap(Focused).of.k = "text"
    /\ Len(Unwrap(Focused).items) = 1
    /\ Unwrap(Focused).items[1].value = <<>>
    /\ result = OkNone
    /\ ~is_done(root)
    /\ LET removing == Chosen(Choice_(s_remove))
           removed == choose(removing.builder, removing.current_fields,
                             Choice_(NatToString(0)))
       IN  /\ removed.result = OkNone
           /\ is_done(removed.builder)
           /\ HasChoice(Builder_get_options(removed.builder, <<>>), FINALIZE_ID)

\* C38: a Text whose content is BACK_ID or FINALIZE_ID never returns a finished
\* value and is never read as back or finish: a string leaf stores it as its
\* value, a numeric or char leaf returns Err(InvalidText) and a menu that takes
\* no text returns Err(UnexpectedText), both leaving the tree and the path as
\* they are.
C38_ReservedTextIsOrdinaryText ==
    \A text \in {BACK_ID, FINALIZE_ID} :
        LET after == Chosen(Text_(text))
            leaf == Unwrap(Focused)
        IN  /\ after.result.kind \in {"Ok", "Err"}
            /\ after.result.value = <<>>
            /\ IF leaf.k = "text" /\ leaf.ty = "String"
               THEN /\ after.result = OkNone
                    /\ after.current_fields = Pop(current_fields)
                    /\ Unwrap(Focus(after.builder, current_fields)) =
                           [leaf EXCEPT !.value = <<text>>]
                    /\ is_done(root) => is_done(after.builder)
               ELSE IF leaf.k = "text"
               THEN /\ after.result.kind = "Err"
                    /\ after.result.err.kind = "InvalidText"
                    /\ Unchanged(after)
               ELSE /\ ~Menu.text_input
                    /\ after.result = Err(UnexpectedText)
                    /\ Unchanged(after)

\* A string leaf that holds FINALIZE_ID as its value, typed at that leaf: the
\* call returned Ok(None) and put the path back at the record of the leaf, where
\* a Text of BACK_ID is refused.
C38_Witness ==
    /\ root.k = "struct"
    /\ root.name = "Base"
    /\ current_fields = <<s_inner>>
    /\ result = OkNone
    /\ root.fields[3].fields[1].value = <<FINALIZE_ID>>
    /\ <<s_inner, s_string>> \in DOMAIN supplied
    /\ supplied[<<s_inner, s_string>>] = FINALIZE_ID
    /\ Chosen(Text_(BACK_ID)).result = Err(UnexpectedText)

\* C39: to_node() returns a node in every state, whatever the builder: also for
\* a union whose default variant is hidden, a union with no active variant, an
\* unset optional and an empty sequence.
C39_ToNodeNeverFails == to_node(root).n # "panic"

\* C40: a finish that returns Ok(Some(v)) leaves the tree and the path as they
\* are, so that the menu still lists finish and a second finish returns the same
\* v; and whenever the last call returned a value, the state is one where finish
\* is listed and returns that value again.
C40_FinishKeepsTheBuilder ==
    /\ \A input \in Inputs :
           LET after == Chosen(input)
               again == choose(after.builder, after.current_fields, Choice_(FINALIZE_ID))
           IN  after.result.value # <<>> =>
                   /\ input = Choice_(FINALIZE_ID)
                   /\ Unchanged(after)
                   /\ HasChoice(Builder_get_options(after.builder, after.current_fields),
                                FINALIZE_ID)
                   /\ again.result = after.result
                   /\ again.builder = root
                   /\ again.current_fields = current_fields
    /\ (current_fields = <<>> /\ is_done(root)) =>
           Chosen(Choice_(FINALIZE_ID)).result = OkSome(get_value_any(root)[1])
    /\ result.value # <<>> =>
           /\ current_fields = <<>>
           /\ is_done(root)
           /\ HasChoice(Menu, FINALIZE_ID)
           /\ Chosen(Choice_(FINALIZE_ID)).result = result
           /\ Unchanged(Chosen(Choice_(FINALIZE_ID)))

\* A record just finished after its fields were typed: the call returned the
\* value with what was typed, and the record's menu still lists finish.
C40_Witness ==
    /\ root.k = "struct"
    /\ root.name = "Base"
    /\ current_fields = <<>>
    /\ result.kind = "Ok"
    /\ result.value # <<>>
    /\ root.fields[1].value = <<7>>
    /\ <<s_integer>> \in DOMAIN supplied
    /\ HasChoice(Menu, FINALIZE_ID)
    /\ Chosen(Choice_(FINALIZE_ID)).result = result

====
